---- MODULE Spec2Model ----
(***************************************************************************)
(* Model of the financial allocation engine of TOKOI_GUI.py:               *)
(*   - the invoice interest calculator (add_months, calc_interest),        *)
(*   - the temporal rate resolver of driver compensation                   *)
(*     (driver_pay_for_month, set_driver_pay_for_month, the driver form),  *)
(*   - the distance-weighted cost allocator and the trip profit of        *)
(*     TripsPage.refresh, with the trip handlers that feed it,             *)
(*   - the period aggregate of TrucksSummaryPage.refresh.                  *)
(*                                                                         *)
(* Units.  Money is held in integer cents (the spin boxes have two         *)
(* decimals), annual rates in 1/10000 (a percentage with two decimals      *)
(* divided by 100), distances in whole km (trip_km is an int).  A quotient *)
(* the code leaves as a float is held as an exact fraction                 *)
(* [num |-> n, den |-> d], d > 0.  A "YYYY-MM" month string is held as the *)
(* integer YYYY*100 + MM, which orders exactly as the zero-padded strings  *)
(* do.  A commission is held in 1/100 of a percent, a wear rate and a fuel *)
(* price in 1/1000 of a euro (three decimals), liters in 1/100 (two        *)
(* decimals).                                                              *)
(***************************************************************************)
EXTENDS Integers, Sequences, FiniteSets, TLC

VARIABLES
    \* --- invoice interest calculator
    inv,            \* the Invoice handed to calc_interest
    default_rate,   \* default annual rate (1/10000)
    as_of,          \* the as-of date
    interest_out,   \* what calc_interest returned, or NotRun before the call
    \* --- fleet dataset: drivers
    drivers,        \* TrucksModel.drivers: sequence of Driver records
    next_driver_id, \* TrucksModel.next_driver_id
    today,          \* _ym_today(): the present month
    pay_written,    \* history: <<did, month>> -> the snapshot last saved for it
    \* --- fleet dataset: trucks and trips, and the trips page
    trucks,         \* TrucksModel.trucks: sequence of Truck records
    trips,          \* TrucksModel.trips: sequence of Trip records
    next_trip_id,   \* TrucksModel.next_trip_id
    fuels,          \* TrucksModel.fuels: sequence of FuelExpense records
    wear_rate_per_km, \* TrucksModel.wear_rate_per_km: the fleet default wear rate
    sel_tid,        \* TripsPage.cb_truck_filter.currentData(): a tid or NoId
    period,         \* TripsPage.period_year / period_month
    alloc_out,      \* what TripsPage.refresh computed, or NotRun before the pass
    \* --- the summary page
    sum_tid,        \* TrucksSummaryPage.cb_truck.currentData(): a tid or NoId
    d_from,         \* the parsed "from" date, or NoDate
    d_to,           \* the parsed "to" date, or NoDate
    summary_out,    \* what TrucksSummaryPage.refresh computed, or NotRun
    \* --- the other id counters of the fleet dataset
    next_truck_id,  \* TrucksModel.next_truck_id
    next_fuel_id,   \* TrucksModel.next_fuel_id
    cb_driver_fuel, \* FuelPage.cb_driver: the driver ids its combo lists
    \* --- the station dataset
    invoices,       \* StationModel.invoices: sequence of station invoices
    customers,      \* StationModel.customers: sequence of Customer records
    next_customer_id, \* StationModel.next_customer_id
    entry_table,    \* StationEntryPage.table: the invoice numbers of its rows
    entry_try,      \* the last add, update or delete asked of the entry page
    entry_msg,      \* the dialog that answered it: "none", "duplicate" or "select"
    \* --- persistence of the fleet dataset
    file,           \* the content of the fleet data file, or NoFile
    timer,          \* TRUE while the single-shot autosave timer is running
    window          \* the window shown: "trucks", "station" or "closed"

interest_vars == <<inv, default_rate, as_of, interest_out>>
driver_vars   == <<drivers, next_driver_id, today, pay_written>>
alloc_vars    == <<trucks, trips, next_trip_id, fuels, wear_rate_per_km,
                   sel_tid, period, alloc_out>>
summary_vars  == <<sum_tid, d_from, d_to, summary_out>>
fleet_ext_vars == <<next_truck_id, next_fuel_id, cb_driver_fuel>>
entry_vars    == <<entry_table, entry_try, entry_msg>>
station_vars  == <<invoices, customers, next_customer_id, entry_table, entry_try, entry_msg>>
save_vars     == <<file, timer, window>>
vars == <<inv, default_rate, as_of, interest_out,
          drivers, next_driver_id, today, pay_written,
          trucks, trips, next_trip_id, fuels, wear_rate_per_km,
          sel_tid, period, alloc_out,
          sum_tid, d_from, d_to, summary_out,
          next_truck_id, next_fuel_id, cb_driver_fuel, invoices, customers, next_customer_id,
          entry_table, entry_try, entry_msg,
          file, timer, window>>

\* Python's None, one value per type it stands in for
NoDate == [y |-> 0, m |-> 0, d |-> 0]
NoRate == -1
NoId == 0
NotRun == [done |-> FALSE]
NoFile == [saved |-> FALSE]
NoRow == 0
NoTry == [op |-> "none", row |-> NoRow, invoice_no |-> ""]

(***************************************************************************)
(* Exact fractions.                                                        *)
(***************************************************************************)
Abs(n) == IF n < 0 THEN -n ELSE n

RECURSIVE GCD(_, _)
GCD(a, b) == IF b = 0 THEN a ELSE GCD(b, a % b)

\* the fraction n/d (d > 0) in lowest terms, so that equal values are equal records
Frac(n, d) ==
    LET g == GCD(Abs(n), d)
    IN  [num |-> n \div g, den |-> d \div g]

FracZero == Frac(0, 1)

FracOfInt(k) == Frac(k, 1)

FracAdd(a, b) == Frac(a.num * b.den + b.num * a.den, a.den * b.den)

FracMul(a, b) == Frac(a.num * b.num, a.den * b.den)

FracMulInt(a, k) == Frac(a.num * k, a.den)

FracSub(a, b) == FracAdd(a, Frac(-b.num, b.den))

\* the sum of the fractions f[i], i in S
RECURSIVE FracSum(_, _)
FracSum(S, f) ==
    IF S = {} THEN FracZero
    ELSE LET i == CHOOSE j \in S : TRUE
         IN  FracAdd(f[i], FracSum(S \ {i}, f))

\* the sum of the integers f[i], i in S
RECURSIVE IntSum(_, _)
IntSum(S, f) ==
    IF S = {} THEN 0
    ELSE LET i == CHOOSE j \in S : TRUE
         IN  f[i] + IntSum(S \ {i}, f)

\* f"{x:.2f}" on a non-negative amount in cents: the nearest cent
RoundCents(a) == (2 * a.num + a.den) \div (2 * a.den)

Min(a, b) == IF a <= b THEN a ELSE b

(***************************************************************************)
(* datetime.date and calendar.monthrange                                   *)
(***************************************************************************)
Date(y, m, d) == [y |-> y, m |-> m, d |-> d]

IsLeap(y) == (y % 4 = 0 /\ y % 100 # 0) \/ y % 400 = 0

\* calendar.monthrange(y, m)[1]
DaysInMonth(y, m) ==
    IF m = 2 THEN (IF IsLeap(y) THEN 29 ELSE 28)
    ELSE IF m \in {4, 6, 9, 11} THEN 30 ELSE 31

RECURSIVE DaysBeforeMonth(_, _)
DaysBeforeMonth(y, m) ==
    IF m = 1 THEN 0 ELSE DaysBeforeMonth(y, m - 1) + DaysInMonth(y, m - 1)

\* date.toordinal()
Ordinal(dt) ==
    LET y1 == dt.y - 1
    IN  y1 * 365 + (y1 \div 4) - (y1 \div 100) + (y1 \div 400)
        + DaysBeforeMonth(dt.y, dt.m) + dt.d

\* (a - b).days
DaysBetween(a, b) == Ordinal(a) - Ordinal(b)

(***************************************************************************)
(* Invoice interest calculator                                             *)
(***************************************************************************)
\* amount * rate * (delay_days / 365.0), amount in cents and rate in 1/10000
InterestOf(amount, rate, delay_days) ==
    FracMul(FracMul(FracOfInt(amount), Frac(rate, 10000)), Frac(delay_days, 365))

add_months_no_clamp(d, months) ==
    LET y == d.y + ((d.m - 1 + months) \div 12)
        m == ((d.m - 1 + months) % 12) + 1
    IN  Date(y, m, d.d)

add_months(d, months) ==
    LET y == d.y + ((d.m - 1 + months) \div 12)
        m == ((d.m - 1 + months) % 12) + 1
        last_day == DaysInMonth(y, m)
        day == Min(d.d, last_day)
    IN  Date(y, m, day)

calc_interest_signed_delay(i, drate, asof) ==
    LET due_date == add_months(i.issue_date, i.credit_months)
        end_date == IF i.paid_date # NoDate THEN i.paid_date ELSE asof
        delay_days == DaysBetween(end_date, due_date)
        rate == IF i.annual_rate # NoRate THEN i.annual_rate ELSE drate
    IN  [done |-> TRUE,
         due_date |-> due_date, end_date |-> end_date, delay_days |-> delay_days,
         rate |-> rate,
         interest |-> InterestOf(i.amount, rate, delay_days)]

calc_interest_falsy_override(i, drate, asof) ==
    LET due_date == add_months(i.issue_date, i.credit_months)
        end_date == IF i.paid_date # NoDate THEN i.paid_date ELSE asof
        d0 == DaysBetween(end_date, due_date)
        delay_days == IF d0 < 0 THEN 0 ELSE d0
        rate == IF i.annual_rate # NoRate /\ i.annual_rate # 0
                THEN i.annual_rate ELSE drate
    IN  [done |-> TRUE,
         due_date |-> due_date, end_date |-> end_date, delay_days |-> delay_days,
         rate |-> rate,
         interest |-> InterestOf(i.amount, rate, delay_days)]

\* returns (due_date, end_date, delay_days, rate, interest); interest in cents
calc_interest(i, drate, asof) ==
    LET due_date == add_months(i.issue_date, i.credit_months)
        end_date == IF i.paid_date # NoDate THEN i.paid_date ELSE asof
        d0 == DaysBetween(end_date, due_date)
        delay_days == IF d0 < 0 THEN 0 ELSE d0
        rate == IF i.annual_rate # NoRate THEN i.annual_rate ELSE drate
    IN  [done |-> TRUE,
         due_date |-> due_date, end_date |-> end_date, delay_days |-> delay_days,
         rate |-> rate,
         interest |-> InterestOf(i.amount, rate, delay_days)]

(***************************************************************************)
(* Temporal rate resolver: Driver records and their pay history            *)
(***************************************************************************)
\* _ym_from_year_month(year, month) = f"{year:04d}-{month:02d}"
ym_from_year_month(year, month) == year * 100 + month

\* the sentinel month "1900-01"
SentinelMonth == ym_from_year_month(1900, 1)

Snap(pay_mode, salary, stamp_cost, pay_per_trip) ==
    [pay_mode |-> pay_mode, salary |-> salary, stamp_cost |-> stamp_cost,
     pay_per_trip |-> pay_per_trip]

\* a pay_history entry: {"month", "pay_mode", "salary", "stamp_cost", "pay_per_trip"}
HistEntry(month, s) ==
    [month |-> month, pay_mode |-> s.pay_mode, salary |-> s.salary,
     stamp_cost |-> s.stamp_cost, pay_per_trip |-> s.pay_per_trip]

\* the compensation fields of a history entry or of a Driver
SnapOf(r) == Snap(r.pay_mode, r.salary, r.stamp_cost, r.pay_per_trip)

\* Driver(did, ..., salary, stamp_cost, pay_mode, pay_per_trip, pay_history, active)
Driver(did, s, active, hist) ==
    [did |-> did, pay_mode |-> s.pay_mode, salary |-> s.salary,
     stamp_cost |-> s.stamp_cost, pay_per_trip |-> s.pay_per_trip,
     pay_history |-> hist, active |-> active]

\* list.sort(key=month) is stable: r goes after every entry whose month is <= its own
RECURSIVE InsertByMonth(_, _)
InsertByMonth(s, r) ==
    IF s = <<>> THEN <<r>>
    ELSE IF Head(s).month <= r.month
         THEN <<Head(s)>> \o InsertByMonth(Tail(s), r)
         ELSE <<r>> \o s

RECURSIVE SortByMonth(_)
SortByMonth(s) ==
    IF s = <<>> THEN <<>>
    ELSE InsertByMonth(SortByMonth(SubSeq(s, 1, Len(s) - 1)), s[Len(s)])

\* [h for h in hist if not (h["month"] == ym)]
RECURSIVE DropMonth(_, _)
DropMonth(s, ym) ==
    IF s = <<>> THEN <<>>
    ELSE IF Head(s).month = ym THEN DropMonth(Tail(s), ym)
         ELSE <<Head(s)>> \o DropMonth(Tail(s), ym)

\* the snapshot built from the driver's legacy fields, tagged "1900-01"
LegacySnapshot(driver) == HistEntry(SentinelMonth, SnapOf(driver))

\* for r in norm: if r["month"] <= ym: chosen = r  else: break
RECURSIVE ScanChosen(_, _, _, _)
ScanChosen(norm, i, ym, chosen) ==
    IF i > Len(norm) THEN chosen
    ELSE IF norm[i].month <= ym THEN ScanChosen(norm, i + 1, ym, norm[i])
         ELSE chosen

driver_pay_for_month_no_fallback(driver, ym) ==
    LET norm == SortByMonth(driver.pay_history)
    IN  IF driver.pay_history = <<>> THEN LegacySnapshot(driver)
        ELSE ScanChosen(norm, 1, ym, LegacySnapshot(driver))

driver_pay_for_month_zeroed(driver, ym) ==
    LET norm == SortByMonth(driver.pay_history)
    IN  IF driver.pay_history = <<>>
        THEN HistEntry(SentinelMonth, Snap("monthly", 0, 0, 0))
        ELSE ScanChosen(norm, 1, ym, norm[1])

\* Latest pay record with month <= ym; falls back to the legacy fields
driver_pay_for_month(driver, ym) ==
    LET hist == driver.pay_history
        norm == SortByMonth(hist)
    IN  IF hist = <<>> THEN LegacySnapshot(driver)
        ELSE ScanChosen(norm, 1, ym, norm[1])

_sync_driver_legacy_from_history(driver, now) ==
    LET snap == driver_pay_for_month(driver, now)
    IN  [driver EXCEPT !.pay_mode = snap.pay_mode, !.salary = snap.salary,
                       !.stamp_cost = snap.stamp_cost,
                       !.pay_per_trip = snap.pay_per_trip]

set_driver_pay_for_month_additive(driver, ym, s, now) ==
    _sync_driver_legacy_from_history(
        [driver EXCEPT !.pay_history =
            SortByMonth(Append(driver.pay_history, HistEntry(ym, s)))], now)

set_driver_pay_for_month_prepend(driver, ym, s, now) ==
    _sync_driver_legacy_from_history(
        [driver EXCEPT !.pay_history =
            SortByMonth(<<HistEntry(ym, s)>> \o driver.pay_history)], now)

\* a set that drops every entry of an earlier month
set_driver_pay_for_month_restart(driver, ym, s, now) ==
    LET kept == SelectSeq(driver.pay_history, LAMBDA h : h.month > ym)
    IN  _sync_driver_legacy_from_history(
            [driver EXCEPT !.pay_history = SortByMonth(Append(kept, HistEntry(ym, s)))],
            now)

set_driver_pay_for_month(driver, ym, s, now) ==
    LET hist == Append(DropMonth(driver.pay_history, ym), HistEntry(ym, s))
    IN  _sync_driver_legacy_from_history(
            [driver EXCEPT !.pay_history = SortByMonth(hist)], now)

(***************************************************************************)
(* Fleet dataset: trucks and trips                                         *)
(***************************************************************************)
\* a Truck with the dataclass defaults: odometer 0, no main driver, wear rate 0.0
Truck(tid, active, fixed_monthly_expenses) ==
    [tid |-> tid, active |-> active, odometer_km |-> 0,
     fixed_monthly_expenses |-> fixed_monthly_expenses,
     main_driver_id |-> NoId, wear_rate_per_km |-> 0]

\* a Truck as the registry form fills it
TruckOf(tid, active, fixed_monthly_expenses, main_driver_id, wear) ==
    [tid |-> tid, active |-> active, odometer_km |-> 0,
     fixed_monthly_expenses |-> fixed_monthly_expenses,
     main_driver_id |-> main_driver_id, wear_rate_per_km |-> wear]

\* a Trip with the dataclass defaults: no revenue, commission, tolls, driver pay
Trip(trip_id, truck_id, trip_date, driver_id, trip_km) ==
    [trip_id |-> trip_id, truck_id |-> truck_id, trip_date |-> trip_date,
     driver_id |-> driver_id, trip_km |-> trip_km,
     revenue |-> 0, commission_percent |-> 0, toll_amount |-> 0, driver_pay |-> 0]

\* a Trip as the trip form fills it
TripOf(trip_id, truck_id, trip_date, driver_id, trip_km, revenue, commission_percent, toll_amount, driver_pay) ==
    [trip_id |-> trip_id, truck_id |-> truck_id, trip_date |-> trip_date,
     driver_id |-> driver_id, trip_km |-> trip_km,
     revenue |-> revenue, commission_percent |-> commission_percent,
     toll_amount |-> toll_amount, driver_pay |-> driver_pay]

\* cost is the price per liter; the dataclass default is no driver
FuelExpense(fuel_id, truck_id, fuel_date, liters, cost) ==
    [fuel_id |-> fuel_id, truck_id |-> truck_id, fuel_date |-> fuel_date,
     driver_id |-> NoId, liters |-> liters, cost |-> cost]

\* a FuelExpense as the fuel form fills it
FuelOf(fuel_id, truck_id, fuel_date, driver_id, liters, cost) ==
    [fuel_id |-> fuel_id, truck_id |-> truck_id, fuel_date |-> fuel_date,
     driver_id |-> driver_id, liters |-> liters, cost |-> cost]

NoTruck == Truck(NoId, FALSE, 0)

\* TrucksModel.truck_by_id: the first truck with that tid, or None
truck_by_id(ts, tid) ==
    LET hits == {i \in 1..Len(ts) : ts[i].tid = tid}
    IN  IF hits = {} THEN NoTruck
        ELSE ts[CHOOSE i \in hits : \A j \in hits : i <= j]

NoDriver == Driver(NoId, Snap("monthly", 0, 0, 0), FALSE, <<>>)

\* TrucksModel.driver_by_id: the first driver with that did, or None
driver_by_id(ds, did) ==
    LET hits == {i \in 1..Len(ds) : ds[i].did = did}
    IN  IF hits = {} THEN NoDriver
        ELSE ds[CHOOSE i \in hits : \A j \in hits : i <= j]

\* the wear rate the model starts with, 0.10 per km, and falls back to
DefaultWearRate == 100

\* TrucksModel.wear_rate_for_truck: the truck's own rate if > 0, else
\* float(self.wear_rate_per_km or 0.10)
wear_rate_for_truck(ts, wear, truck_id) ==
    LET t  == truck_by_id(ts, truck_id)
        ov == IF truck_id # NoId /\ t # NoTruck THEN t.wear_rate_per_km ELSE 0
    IN  IF ov > 0 THEN ov
        ELSE IF wear # 0 THEN wear ELSE DefaultWearRate

(***************************************************************************)
(* TripsPage.refresh: the distance-weighted cost allocator                 *)
(***************************************************************************)
\* _month_key(d) = (d.year, d.month)
month_key(d) == <<d.y, d.m>>

\* TripsPage._in_period; per = [year |-> 0 (None) or a year, month |-> 0..12]
in_period(per, d) ==
    IF per.year = 0 THEN TRUE
    ELSE IF d.y # per.year THEN FALSE
    ELSE IF per.month = 0 THEN TRUE
    ELSE d.m = per.month

\* the indices of the trips the pass shows: in the period and on the selected truck
InScope(tps, per, sel) ==
    {i \in 1..Len(tps) :
        /\ in_period(per, tps[i].trip_date)
        /\ (sel = NoId \/ tps[i].truck_id = sel)}

\* stamps always, salary only for a monthly driver
driver_month_cost_any_mode(d) == d.stamp_cost + d.salary

driver_month_cost(d) ==
    d.stamp_cost + (IF d.pay_mode = "monthly" THEN d.salary ELSE 0)

fixed_trucks_per_month_with_inactive(ts, sel) ==
    IF sel # NoId
    THEN LET t == truck_by_id(ts, sel)
         IN  IF t # NoTruck THEN t.fixed_monthly_expenses ELSE 0
    ELSE IntSum(1..Len(ts), [i \in 1..Len(ts) |-> ts[i].fixed_monthly_expenses])

\* fixed_trucks_per_month: the selected truck's, or every active truck's
fixed_trucks_per_month(ts, sel) ==
    IF sel # NoId
    THEN LET t == truck_by_id(ts, sel)
         IN  IF t # NoTruck /\ t.active THEN t.fixed_monthly_expenses ELSE 0
    ELSE IntSum({i \in 1..Len(ts) : ts[i].active},
                [i \in 1..Len(ts) |-> ts[i].fixed_monthly_expenses])

\* fixed_per_month_total = fixed_trucks_per_month + stamps_per_month + salary_per_month
fixed_per_month_total(ts, ds, sel) ==
    fixed_trucks_per_month(ts, sel)
    + IntSum({j \in 1..Len(ds) : ds[j].active},
             [j \in 1..Len(ds) |-> driver_month_cost(ds[j])])

\* the km of the trips of scope that satisfy the key test
KmOf(tps, idx) == IntSum(idx, [i \in 1..Len(tps) |-> tps[i].trip_km])

km_by_month(tps, scope, mk) ==
    KmOf(tps, {i \in scope : month_key(tps[i].trip_date) = mk})

km_truck_month(tps, scope, mk, tid) ==
    KmOf(tps, {i \in scope : month_key(tps[i].trip_date) = mk
                             /\ tps[i].truck_id = tid})

\* the month's km of every trip that names a driver, whoever it is
km_driver_month_any_driver(tps, scope, mk, did) ==
    KmOf(tps, {i \in scope : month_key(tps[i].trip_date) = mk
                             /\ tps[i].driver_id # NoId})

km_driver_month(tps, scope, mk, did) ==
    KmOf(tps, {i \in scope : month_key(tps[i].trip_date) = mk
                             /\ tps[i].driver_id = did})

km_driver_truck_month(tps, scope, mk, did, tid) ==
    KmOf(tps, {i \in scope : month_key(tps[i].trip_date) = mk
                             /\ tps[i].driver_id = did
                             /\ tps[i].truck_id = tid})

rate_per_km_or_one(total, km) == Frac(total.num, total.den * (IF km > 0 THEN km ELSE 1))

\* total / float(km) if km and km > 0 else 0.0
rate_per_km(total, km) ==
    IF km > 0 THEN Frac(total.num, total.den * km) ELSE FracZero

payroll_share_by_truck_km(tps, scope, mk, d, tid) ==
    LET km_total == km_truck_month(tps, scope, mk, tid)
        km_part  == km_driver_truck_month(tps, scope, mk, d.did, tid)
    IN  IF km_total = 0 \/ km_part = 0 THEN FracZero
        ELSE Frac(driver_month_cost(d) * km_part, km_total)

\* share = driver_month_cost * (km_part / km_total) of driver d on truck tid in mk
payroll_share(tps, scope, mk, d, tid) ==
    LET km_total == km_driver_month(tps, scope, mk, d.did)
        km_part  == km_driver_truck_month(tps, scope, mk, d.did, tid)
    IN  IF km_total = 0 \/ km_part = 0 THEN FracZero
        ELSE Frac(driver_month_cost(d) * km_part, km_total)

\* payroll_truck_month[(mk, tid)]: the shares of the active drivers with a cost
payroll_truck_month(tps, ds, scope, mk, tid) ==
    FracSum({j \in 1..Len(ds) : ds[j].active /\ driver_month_cost(ds[j]) # 0},
            [j \in 1..Len(ds) |-> payroll_share(tps, scope, mk, ds[j], tid)])

\* fixed_total of (mk, tid): the truck's own fixed cost plus its payroll
fixed_total_truck_month(tps, ts, ds, scope, mk, tid) ==
    LET t == truck_by_id(ts, tid)
        fixed_truck == IF t # NoTruck /\ t.active THEN t.fixed_monthly_expenses ELSE 0
    IN  FracAdd(FracOfInt(fixed_truck), payroll_truck_month(tps, ds, scope, mk, tid))

\* the months and the (month, truck) pairs the in-scope trips touch
MonthsTouched(tps, scope) == {month_key(tps[i].trip_date) : i \in scope}

TruckMonthsTouched(tps, scope) ==
    {<<month_key(tps[i].trip_date), tps[i].truck_id>> : i \in scope}

\* sorted(trips, key=(trip_date, trip_id), reverse=True), as indices into trips
RECURSIVE RowOrder(_, _)
RowOrder(tps, idx) ==
    IF idx = {} THEN <<>>
    ELSE LET top == CHOOSE i \in idx : \A j \in idx :
                       \/ Ordinal(tps[j].trip_date) < Ordinal(tps[i].trip_date)
                       \/ /\ Ordinal(tps[j].trip_date) = Ordinal(tps[i].trip_date)
                          /\ \/ tps[j].trip_id < tps[i].trip_id
                             \/ /\ tps[j].trip_id = tps[i].trip_id
                                /\ j >= i
         IN  <<top>> \o RowOrder(tps, idx \ {top})

\* fuel_cost_trip: over the fuel expenses of the trip's truck and date, the sum of
\* f.cost (cents)
fuel_cost_trip(fs, tr) ==
    FracSum({k \in 1..Len(fs) : fs[k].truck_id = tr.truck_id
                                /\ fs[k].fuel_date = tr.trip_date},
            [k \in 1..Len(fs) |-> Frac(fs[k].cost, 10)])

\* comm_amount = revenue * (commission_percent / 100.0)
comm_amount(tr) == Frac(tr.revenue * tr.commission_percent, 10000)

\* wear_cost = trip_km * wear_rate (cents)
wear_cost(ts, wear, tr) ==
    Frac(tr.trip_km * wear_rate_for_truck(ts, wear, tr.truck_id), 10)

gross_profit_pay_added(ts, fs, wear, tr) ==
    FracAdd(FracSub(FracSub(FracSub(FracSub(FracOfInt(tr.revenue), comm_amount(tr)),
                                    FracOfInt(tr.toll_amount)),
                            wear_cost(ts, wear, tr)),
                    fuel_cost_trip(fs, tr)),
            FracOfInt(tr.driver_pay))

\* gross_profit = revenue - commission - tolls - wear_cost - fuel_cost_trip
\*                - driver_pay
gross_profit(ts, fs, wear, tr) ==
    FracSub(FracSub(FracSub(FracSub(FracSub(FracOfInt(tr.revenue), comm_amount(tr)),
                                    FracOfInt(tr.toll_amount)),
                            wear_cost(ts, wear, tr)),
                    fuel_cost_trip(fs, tr)),
            FracOfInt(tr.driver_pay))

\* the pass: both rate tables and one row per in-scope trip
refresh(tps, ts, ds, fs, wear, sel, per) ==
    LET scope == InScope(tps, per, sel)
        total == fixed_per_month_total(ts, ds, sel)
        fixed_per_km_by_month ==
            [mk \in MonthsTouched(tps, scope) |->
                rate_per_km(FracOfInt(total), km_by_month(tps, scope, mk))]
        fixed_per_km_truck_month ==
            [k \in TruckMonthsTouched(tps, scope) |->
                rate_per_km(fixed_total_truck_month(tps, ts, ds, scope, k[1], k[2]),
                            km_truck_month(tps, scope, k[1], k[2]))]
        order == RowOrder(tps, scope)
    IN  [done |-> TRUE,
         fixed_per_km_by_month |-> fixed_per_km_by_month,
         fixed_per_km_truck_month |-> fixed_per_km_truck_month,
         rows |-> [r \in 1..Len(order) |->
            LET tr == tps[order[r]]
                mk == month_key(tr.trip_date)
            IN  [trip_id |-> tr.trip_id,
                 truck_id |-> tr.truck_id,
                 mk |-> mk,
                 trip_km |-> tr.trip_km,
                 comm_amount |-> comm_amount(tr),
                 wear_cost |-> wear_cost(ts, wear, tr),
                 fuel_cost_trip |-> fuel_cost_trip(fs, tr),
                 driver_pay |-> tr.driver_pay,
                 gross_profit |-> gross_profit(ts, fs, wear, tr),
                 fixed_share |-> FracMulInt(fixed_per_km_by_month[mk], tr.trip_km),
                 net_profit |->
                    FracSub(gross_profit(ts, fs, wear, tr),
                            FracMulInt(fixed_per_km_by_month[mk], tr.trip_km)),
                 fixed_share_truck |->
                    FracMulInt(fixed_per_km_truck_month[<<mk, tr.truck_id>>],
                               tr.trip_km),
                 net_profit_truck |->
                    FracSub(gross_profit(ts, fs, wear, tr),
                            FracMulInt(fixed_per_km_truck_month[<<mk, tr.truck_id>>],
                                       tr.trip_km))]]]

(***************************************************************************)
(* TrucksSummaryPage.refresh: the period aggregate                         *)
(***************************************************************************)
\* the range the page works with: the typed dates, or with neither typed the
\* year or month of the period bar
range_of(dfrom, dto, per) ==
    IF dfrom = NoDate /\ dto = NoDate /\ per.year # 0
    THEN IF per.month = 0
         THEN [d_from |-> Date(per.year, 1, 1), d_to |-> Date(per.year, 12, 31)]
         ELSE [d_from |-> Date(per.year, per.month, 1),
               d_to |-> Date(per.year, per.month, DaysInMonth(per.year, per.month))]
    ELSE [d_from |-> dfrom, d_to |-> dto]

in_range_open_end(rg, d) ==
    /\ ~(rg.d_from # NoDate /\ Ordinal(d) < Ordinal(rg.d_from))
    /\ ~(rg.d_to # NoDate /\ Ordinal(d) >= Ordinal(rg.d_to))

\* in_range: not before d_from when given, not after d_to when given
in_range(rg, d) ==
    /\ ~(rg.d_from # NoDate /\ Ordinal(d) < Ordinal(rg.d_from))
    /\ ~(rg.d_to # NoDate /\ Ordinal(d) > Ordinal(rg.d_to))

\* month_diff_inclusive
month_diff_inclusive(d1, d2) == (d2.y - d1.y) * 12 + (d2.m - d1.m) + 1

\* _iter_months: the (year, month) pairs from (y, m) to the month of end
RECURSIVE _iter_months(_, _, _)
_iter_months(y, m, end) ==
    IF y > end.y \/ (y = end.y /\ m > end.m) THEN <<>>
    ELSE <<<<y, m>>>> \o _iter_months(IF m = 12 THEN y + 1 ELSE y,
                                      IF m = 12 THEN 1 ELSE m + 1, end)

\* the earliest and the latest of a non-empty set of dates
MinDate(ds) == CHOOSE d \in ds : \A e \in ds : Ordinal(d) <= Ordinal(e)

MaxDate(ds) == CHOOSE d \in ds : \A e \in ds : Ordinal(e) <= Ordinal(d)

\* range_start, range_end: the range when both ends are given, else the span of
\* the dates shown, else the present month
month_range(rg, tps, fs, idxT, idxF, now) ==
    LET dates == {tps[i].trip_date : i \in idxT} \cup {fs[k].fuel_date : k \in idxF}
        first == Date(now \div 100, now % 100, 1)
    IN  IF rg.d_from # NoDate /\ rg.d_to # NoDate
        THEN [start |-> rg.d_from, end |-> rg.d_to]
        ELSE IF dates # {} THEN [start |-> MinDate(dates), end |-> MaxDate(dates)]
        ELSE [start |-> first, end |-> first]

\* total_fixed: the selected truck's fixed cost, or every active truck's, times
\* the months of the range
total_fixed(ts, tid, months) ==
    IF tid # NoId
    THEN LET t == truck_by_id(ts, tid)
         IN  (IF t # NoTruck /\ t.active THEN t.fixed_monthly_expenses ELSE 0) * months
    ELSE IntSum({i \in 1..Len(ts) : ts[i].active /\ ts[i].fixed_monthly_expenses > 0},
                [i \in 1..Len(ts) |-> ts[i].fixed_monthly_expenses * months])

\* drivers_iter: the selected truck's main driver if active, nobody for a selected
\* truck without one, else every active driver (as indices into ds)
drivers_iter(ts, ds, tid) ==
    IF tid # NoId
    THEN LET t == truck_by_id(ts, tid)
             did == IF t # NoTruck THEN t.main_driver_id ELSE NoId
             hits == {j \in 1..Len(ds) : ds[j].did = did}
             first == CHOOSE j \in hits : \A k \in hits : j <= k
         IN  IF did # NoId /\ hits # {} /\ ds[first].active THEN {first} ELSE {}
    ELSE {j \in 1..Len(ds) : ds[j].active}

stamps_month_current(ds, iter, mk) ==
    IntSum(iter, [j \in 1..Len(ds) |-> ds[j].stamp_cost])

\* stamps_month: the stamps of the month's snapshots
stamps_month(ds, iter, mk) ==
    IntSum(iter, [j \in 1..Len(ds) |->
        driver_pay_for_month(ds[j], ym_from_year_month(mk[1], mk[2])).stamp_cost])

\* salary_month: the salaries of the month's snapshots whose mode is monthly
salary_month(ds, iter, mk) ==
    IntSum(iter, [j \in 1..Len(ds) |->
        LET snap == driver_pay_for_month(ds[j], ym_from_year_month(mk[1], mk[2]))
        IN  IF snap.pay_mode = "monthly" THEN snap.salary ELSE 0])

\* the pass of the summary page
summary_refresh(tps, fs, ts, ds, wear, tid, dfrom, dto, per, now) ==
    LET rg == range_of(dfrom, dto, per)
        idxT == {i \in 1..Len(tps) :
                    (tid = NoId \/ tps[i].truck_id = tid) /\ in_range(rg, tps[i].trip_date)}
        idxF == {k \in 1..Len(fs) :
                    (tid = NoId \/ fs[k].truck_id = tid) /\ in_range(rg, fs[k].fuel_date)}
        total_rev == IntSum(idxT, [i \in 1..Len(tps) |-> tps[i].revenue])
        total_other_expenses == Frac(total_rev * 5, 100)
        total_commission == FracSum(idxT, [i \in 1..Len(tps) |-> comm_amount(tps[i])])
        total_tolls == IntSum(idxT, [i \in 1..Len(tps) |-> tps[i].toll_amount])
        total_wear == FracSum(idxT, [i \in 1..Len(tps) |-> wear_cost(ts, wear, tps[i])])
        total_cost_fuel ==
            FracSum(idxF, [k \in 1..Len(fs) |-> Frac(fs[k].liters * fs[k].cost, 1000)])
        mr == month_range(rg, tps, fs, idxT, idxF, now)
        months_in_range == month_diff_inclusive(mr.start, mr.end)
        fixed == total_fixed(ts, tid, months_in_range)
        iter == drivers_iter(ts, ds, tid)
        months == _iter_months(mr.start.y, mr.start.m, mr.end)
        total_stamps ==
            IntSum(1..Len(months), [n \in 1..Len(months) |-> stamps_month(ds, iter, months[n])])
        total_salary ==
            IntSum(1..Len(months), [n \in 1..Len(months) |-> salary_month(ds, iter, months[n])])
        total_per_trip_pay == IntSum(idxT, [i \in 1..Len(tps) |-> tps[i].driver_pay])
        total_cost ==
            FracAdd(FracAdd(FracAdd(FracAdd(total_cost_fuel, total_commission),
                                    FracOfInt(total_tolls)), total_wear),
                    FracAdd(FracOfInt(fixed + total_stamps + total_salary
                                        + total_per_trip_pay),
                            total_other_expenses))
    IN  [done |-> TRUE, d_from |-> rg.d_from, d_to |-> rg.d_to,
         total_km |-> IntSum(idxT, [i \in 1..Len(tps) |-> tps[i].trip_km]),
         total_rev |-> total_rev,
         total_other_expenses |-> total_other_expenses,
         total_commission |-> total_commission,
         total_tolls |-> total_tolls,
         total_wear |-> total_wear,
         total_liters |-> IntSum(idxF, [k \in 1..Len(fs) |-> fs[k].liters]),
         total_cost_fuel |-> total_cost_fuel,
         months_in_range |-> months_in_range,
         total_fixed |-> fixed,
         total_stamps |-> total_stamps,
         total_salary |-> total_salary,
         total_per_trip_pay |-> total_per_trip_pay,
         total_cost |-> total_cost,
         net |-> FracSub(FracOfInt(total_rev), total_cost)]

(***************************************************************************)
(* Bounds and input domains                                                *)
(***************************************************************************)
MaxDrivers == 1

MaxCredit == 14

MaxTrips == 2

MaxFuels == 2
\* fleet handlers: truck ids issued
MaxTrucks == 2
\* station handlers: customer ids issued
MaxCustomers == 2
\* fleet handlers: identifiers issued in one run, over every kind
MaxIssued == 4
\* station handlers: invoices entered
MaxInvoices == 3

\* the compensation values typed into the driver form and the pay dialog
SnapMonthly  == Snap("monthly", 80000, 10000, 0)
SnapPerTrip  == Snap("per_trip", 80000, 10000, 5000)
SnapRaise    == Snap("monthly", 90000, 12000, 0)
SnapNothing  == Snap("monthly", 0, 0, 0)

FormSnaps == {SnapMonthly, SnapPerTrip}

\* the (year, month) pairs chosen in the pay dialog, and the months resolved
DialogMonths == {<<2025, 11>>, <<2026, 2>>}

TargetMonths == {ym_from_year_month(2025, 10), ym_from_year_month(2025, 11),
                 ym_from_year_month(2025, 12), ym_from_year_month(2026, 1),
                 ym_from_year_month(2026, 2), ym_from_year_month(2026, 3)}

Todays == {ym_from_year_month(2025, 11), ym_from_year_month(2026, 1)}

NoPeriod == [year |-> 0, month |-> 0]

Invoice(amount, issue_date, credit_months, paid_date, annual_rate) ==
    [amount |-> amount, issue_date |-> issue_date, credit_months |-> credit_months,
     paid_date |-> paid_date, annual_rate |-> annual_rate]

\* the parts of the state a specification does not use
InterestIdle ==
    /\ inv = Invoice(0, NoDate, 0, NoDate, NoRate)
    /\ default_rate = 0 /\ as_of = NoDate /\ interest_out = NotRun

DriversIdle ==
    /\ next_driver_id = 1 /\ today = ym_from_year_month(2026, 1)
    /\ pay_written = <<>>

AllocIdle ==
    /\ trucks = <<>> /\ trips = <<>> /\ next_trip_id = 1 /\ fuels = <<>>
    /\ wear_rate_per_km = DefaultWearRate
    /\ sel_tid = NoId /\ period = NoPeriod
    /\ alloc_out = NotRun

SummaryIdle ==
    /\ sum_tid = NoId /\ d_from = NoDate /\ d_to = NoDate /\ summary_out = NotRun

StationIdle ==
    /\ invoices = <<>> /\ customers = <<>> /\ next_customer_id = 1
    /\ entry_table = <<>> /\ entry_try = NoTry /\ entry_msg = "none"

\* the trucks window just opened on a dataset whose ids were issued in order
FleetWindowOpen ==
    /\ next_truck_id = Len(trucks) + 1 /\ next_fuel_id = Len(fuels) + 1
    /\ cb_driver_fuel = {NoId} \cup {drivers[j].did : j \in {k \in 1..Len(drivers) : drivers[k].active}}
    /\ file = NoFile /\ timer = FALSE /\ window = "trucks"

(***************************************************************************)
(* SpecInterest: calc_interest applied to bounded invoices                 *)
(***************************************************************************)
IssueDates == {Date(2025, 1, 10), Date(2025, 1, 31), Date(2024, 1, 31),
               Date(2024, 11, 30)}

PaidDates == {NoDate, Date(2025, 2, 1), Date(2025, 6, 30)}

AsOfDates == {Date(2025, 3, 12), Date(2024, 12, 31)}

Amounts == {-5000, 0, 100000}

InitInterest ==
    /\ \E a \in Amounts, i \in IssueDates, c \in 0..MaxCredit, p \in PaidDates,
          r \in {NoRate, 0, 1200} :
          inv = Invoice(a, i, c, p, r)
    /\ default_rate \in {0, 600}
    /\ as_of \in AsOfDates
    /\ interest_out = NotRun
    /\ drivers = <<>> /\ DriversIdle /\ AllocIdle /\ SummaryIdle
    /\ StationIdle /\ FleetWindowOpen

CalcInterest ==
    /\ interest_out = NotRun
    /\ interest_out' = calc_interest(inv, default_rate, as_of)
    /\ UNCHANGED <<inv, default_rate, as_of, driver_vars, alloc_vars, summary_vars,
                   fleet_ext_vars, station_vars, save_vars>>

NextInterest == CalcInterest

SpecInterest == InitInterest /\ [][NextInterest]_vars

(***************************************************************************)
(* Spec: the drivers page and the pay dialog                               *)
(***************************************************************************)
Init ==
    /\ drivers = <<>>
    /\ next_driver_id = 1
    /\ today \in Todays
    /\ pay_written = <<>>
    /\ InterestIdle /\ AllocIdle /\ SummaryIdle
    /\ StationIdle /\ FleetWindowOpen

DriverIndex(did) == CHOOSE i \in 1..Len(drivers) : drivers[i].did = did

DriverIds == {drivers[i].did : i \in 1..Len(drivers)}

\* DriversPage.add_driver
add_driver(s, active) ==
    /\ next_driver_id <= MaxDrivers
    /\ drivers' = Append(drivers, Driver(next_driver_id, s, active, <<>>))
    /\ next_driver_id' = next_driver_id + 1
    /\ timer' = TRUE
    /\ UNCHANGED <<today, pay_written, interest_vars, alloc_vars, summary_vars,
                   fleet_ext_vars, station_vars, file, window>>

\* DriversPage.update_driver, the driver did being selected
update_driver(did, s, active) ==
    /\ did \in DriverIds
    /\ drivers' = [drivers EXCEPT ![DriverIndex(did)] =
            [@ EXCEPT !.pay_mode = s.pay_mode, !.pay_per_trip = s.pay_per_trip,
                      !.salary = s.salary, !.stamp_cost = s.stamp_cost,
                      !.active = active]]
    /\ timer' = TRUE
    /\ UNCHANGED <<next_driver_id, today, pay_written, interest_vars, alloc_vars, summary_vars,
                   fleet_ext_vars, station_vars, file, window>>

\* PayHistoryDialog._save on the selected driver, then the sync of open_pay_history.
\* open_pay_history ends with model.save(), a write at once that starts no timer;
\* the data file is followed in SpecSave, whose steps do not open the dialog
pay_history_save(did, year, month, s) ==
    LET ym == ym_from_year_month(year, month)
    IN  /\ did \in DriverIds
        /\ drivers' = [drivers EXCEPT ![DriverIndex(did)] =
                _sync_driver_legacy_from_history(
                    set_driver_pay_for_month(@, ym, s, today), today)]
        /\ pay_written' =
                [k \in (DOMAIN pay_written) \cup {<<did, ym>>} |->
                    IF k = <<did, ym>> THEN s ELSE pay_written[k]]
        /\ UNCHANGED <<next_driver_id, today, interest_vars, alloc_vars, summary_vars,
                   fleet_ext_vars, station_vars, save_vars>>

\* DriversPage.open_pay_history with the dialog closed without saving
open_pay_history(did) ==
    /\ did \in DriverIds
    /\ drivers' = [drivers EXCEPT ![DriverIndex(did)] =
            _sync_driver_legacy_from_history(@, today)]
    /\ UNCHANGED <<next_driver_id, today, pay_written, interest_vars, alloc_vars, summary_vars,
                   fleet_ext_vars, station_vars, save_vars>>

\* DriversPage.delete_driver: refused while a trip names the driver
delete_driver(did) ==
    /\ did \in DriverIds
    /\ \A i \in 1..Len(trips) : trips[i].driver_id # did
    /\ drivers' = SelectSeq(drivers, LAMBDA x : x.did # did)
    /\ pay_written' = [k \in {q \in DOMAIN pay_written : q[1] # did} |-> pay_written[k]]
    /\ timer' = TRUE
    /\ UNCHANGED <<next_driver_id, today, interest_vars, alloc_vars, summary_vars,
                   fleet_ext_vars, station_vars, file, window>>

\* TrucksModel.load of a driver as to_dict wrote it
load_driver(d, now) ==
    LET ph == IF d.pay_history = <<>> THEN <<LegacySnapshot(d)>> ELSE d.pay_history
    IN  _sync_driver_legacy_from_history([d EXCEPT !.pay_history = ph], now)

\* TrucksModel.save then TrucksModel.load: the window closed and opened again
load ==
    /\ drivers # <<>>
    /\ drivers' = [i \in 1..Len(drivers) |-> load_driver(drivers[i], today)]
    /\ UNCHANGED <<next_driver_id, today, pay_written, interest_vars, alloc_vars, summary_vars,
                   fleet_ext_vars, station_vars, save_vars>>

Next ==
    \/ \E s \in FormSnaps, a \in BOOLEAN : add_driver(s, a)
    \/ \E did \in DriverIds, s \in FormSnaps, a \in BOOLEAN : update_driver(did, s, a)
    \/ \E did \in DriverIds, k \in DialogMonths, s \in FormSnaps :
          pay_history_save(did, k[1], k[2], s)
    \/ \E did \in DriverIds : open_pay_history(did)
    \/ \E did \in DriverIds : delete_driver(did)
    \/ load

Spec == Init /\ [][Next]_vars

(***************************************************************************)
(* Claims on the invoice interest calculator (under SpecInterest)          *)
(***************************************************************************)
\* what the specification calls the settlement date and the applied rate
SettlementDate == IF inv.paid_date # NoDate THEN inv.paid_date ELSE as_of

AppliedRate == IF inv.annual_rate # NoRate THEN inv.annual_rate ELSE default_rate

\* C1: for an invoice with amount >= 0 and applied rate >= 0 the interest returned
\* is >= 0, and it is 0 whenever the settlement date (paid date if present, else
\* the as-of date) is on or before the due date.
C1_InterestNonNegative ==
    (interest_out.done /\ inv.amount >= 0 /\ AppliedRate >= 0) =>
        /\ interest_out.interest.num >= 0
        /\ (Ordinal(SettlementDate) <= Ordinal(interest_out.due_date)) =>
                interest_out.interest = FracZero

\* an invoice paid before it fell due, with a positive amount and rate
C1_Witness ==
    /\ interest_out.done
    /\ inv.amount > 0 /\ AppliedRate > 0
    /\ inv.paid_date # NoDate
    /\ Ordinal(inv.paid_date) < Ordinal(interest_out.due_date)

\* C2: the due date lies in the calendar month that is credit_months after the
\* issue month (year boundaries included), on the issue day or, when that month
\* is shorter, on its last day; 2025-01-31 plus one month is 2025-02-28.
C2_DueDateClamped ==
    interest_out.done =>
        LET due == interest_out.due_date
            iss == inv.issue_date
        IN  /\ due.m \in 1..12
            /\ due.y * 12 + (due.m - 1) = iss.y * 12 + (iss.m - 1) + inv.credit_months
            /\ due.d = Min(iss.d, DaysInMonth(due.y, due.m))
            /\ (iss = Date(2025, 1, 31) /\ inv.credit_months = 1) =>
                    due = Date(2025, 2, 28)

\* a term that crosses the year boundary and lands in a shorter month
C2_Witness ==
    /\ interest_out.done
    /\ inv.issue_date = Date(2024, 11, 30) /\ inv.credit_months = 3
    /\ interest_out.due_date = Date(2025, 2, 28)

\* C3: interest = amount * applied rate * delay / 365, delay = max(0, settlement
\* date - due date) in days, settlement date = paid date if present else the
\* as-of date, applied rate = the invoice's override when present (0 included)
\* else the default; 1000.00 due 2025-02-10, unpaid, as of 2025-03-12 at 6%
\* gives 30 days and 4.93.
C3_SimpleInterest ==
    interest_out.done =>
        LET gap == Ordinal(SettlementDate) - Ordinal(interest_out.due_date)
            delay == IF gap > 0 THEN gap ELSE 0
        IN  /\ interest_out.end_date = SettlementDate
            /\ interest_out.delay_days = delay
            /\ interest_out.rate = AppliedRate
            /\ interest_out.interest =
                    FracMul(FracOfInt(inv.amount), Frac(AppliedRate * delay, 365 * 10000))
            /\ (/\ inv = Invoice(100000, Date(2025, 1, 10), 1, NoDate, NoRate)
                /\ as_of = Date(2025, 3, 12) /\ default_rate = 600) =>
                    /\ interest_out.due_date = Date(2025, 2, 10)
                    /\ interest_out.delay_days = 30
                    /\ RoundCents(interest_out.interest) = 493

\* an overdue invoice whose own rate of 0 overrides a positive default
C3_Witness ==
    /\ interest_out.done
    /\ inv.annual_rate = 0 /\ default_rate > 0 /\ inv.amount > 0
    /\ interest_out.delay_days > 0
    /\ interest_out.interest = FracZero

(***************************************************************************)
(* Claims on the temporal rate resolver (under Spec)                       *)
(***************************************************************************)
HistoryEntries(d) == {d.pay_history[k] : k \in 1..Len(d.pay_history)}

C5_ResolverRoundTrip ==
    \A i \in 1..Len(drivers) : \A k \in DOMAIN pay_written :
        LET d == drivers[i]
            M == k[2]
            S == pay_written[k]
        IN  k[1] = d.did =>
                /\ driver_pay_for_month(d, M) = HistEntry(M, S)
                /\ \A M2 \in TargetMonths :
                        (/\ M2 > M
                         /\ ~ \E e \in HistoryEntries(d) : M < e.month /\ e.month <= M2)
                        => SnapOf(driver_pay_for_month(d, M2)) = S

\* a month saved between two other entries, resolved at a later month it covers
C5_Witness ==
    \E i \in 1..Len(drivers) : \E k \in DOMAIN pay_written : \E M2 \in TargetMonths :
        LET d == drivers[i]
        IN  /\ k[1] = d.did
            /\ Len(d.pay_history) >= 3
            /\ M2 > k[2]
            /\ ~ \E e \in HistoryEntries(d) : k[2] < e.month /\ e.month <= M2
            /\ \E e \in HistoryEntries(d) : e.month > M2
            /\ SnapOf(driver_pay_for_month(d, M2)) = pay_written[k]

\* C6: after any sequence of set_driver_pay_for_month calls the history holds at
\* most one entry per month, is sorted ascending by month, and the entry of a
\* month carries the values of the last call for that month.
C6_HistoryUniqueSorted ==
    \A i \in 1..Len(drivers) :
        LET d == drivers[i]
            h == d.pay_history
        IN  /\ \A a \in 1..Len(h) : \A b \in 1..Len(h) :
                    a < b => h[a].month < h[b].month
            /\ \A k \in DOMAIN pay_written :
                    k[1] = d.did =>
                        {a \in 1..Len(h) : h[a].month = k[2]}
                            = {a \in 1..Len(h) : h[a] = HistEntry(k[2], pay_written[k])}
                        /\ \E a \in 1..Len(h) : h[a].month = k[2]

\* a loaded driver (sentinel entry) with both dialog months saved on top
C6_Witness ==
    \E i \in 1..Len(drivers) :
        /\ Len(drivers[i].pay_history) >= 3
        /\ \A k \in DialogMonths :
              <<drivers[i].did, ym_from_year_month(k[1], k[2])>> \in DOMAIN pay_written

\* C7: in every state reached by driver operations the driver's current fields
\* equal the snapshot the resolver returns for the present month.
C7_CurrentFieldsInSync ==
    \A i \in 1..Len(drivers) :
        SnapOf(drivers[i]) = SnapOf(driver_pay_for_month(drivers[i], today))

\* C8: with an empty history the resolver returns, for every target month, the
\* driver's legacy fields tagged with the sentinel month 1900-01.
C8_EmptyHistoryLegacy ==
    \A i \in 1..Len(drivers) : \A T \in TargetMonths :
        LET d == drivers[i]
        IN  d.pay_history = <<>> =>
                driver_pay_for_month(d, T) =
                    [month |-> ym_from_year_month(1900, 1), pay_mode |-> d.pay_mode,
                     salary |-> d.salary, stamp_cost |-> d.stamp_cost,
                     pay_per_trip |-> d.pay_per_trip]

\* a per-trip driver edited through the form and never given a history
C8_Witness ==
    \E i \in 1..Len(drivers) :
        /\ drivers[i].pay_history = <<>>
        /\ drivers[i].pay_mode = "per_trip"
        /\ drivers[i].pay_per_trip > 0

(***************************************************************************)
(* SpecAlloc: TripsPage.refresh applied to bounded fleet datasets          *)
(***************************************************************************)
Truck1 == Truck(1, TRUE, 30000)

TruckFleets == {<<Truck1>>,
                <<Truck1, Truck(2, TRUE, 20000)>>,
                <<Truck1, Truck(2, FALSE, 20000)>>}

DriverCrews ==
    {<<Driver(1, SnapMonthly, TRUE, <<>>)>>,
     <<Driver(1, SnapPerTrip, TRUE, <<>>)>>,
     <<Driver(1, SnapMonthly, TRUE, <<>>), Driver(2, SnapRaise, TRUE, <<>>)>>,
     <<Driver(1, SnapMonthly, TRUE, <<>>), Driver(2, SnapRaise, FALSE, <<>>)>>,
     <<Driver(1, SnapNothing, TRUE, <<>>), Driver(2, SnapPerTrip, TRUE, <<>>)>>}

\* the (date, km) of a trip: March trips of 0, 500 or 1500 km, April trips of 500
TripLegs == {[trip_date |-> Date(2025, 3, 10), trip_km |-> 0],
             [trip_date |-> Date(2025, 3, 10), trip_km |-> 500],
             [trip_date |-> Date(2025, 3, 10), trip_km |-> 1500],
             [trip_date |-> Date(2025, 4, 10), trip_km |-> 500]}

\* the truck filter and the period chosen on the trips page
Filters == {[sel |-> NoId, per |-> NoPeriod],
            [sel |-> 1, per |-> NoPeriod],
            [sel |-> NoId, per |-> [year |-> 2025, month |-> 3]]}

\* entry order: by truck, then driver, then date, then km
TripRank(t) ==
    ((t.truck_id * 3 + t.driver_id) * 400
        + Ordinal(t.leg.trip_date) - Ordinal(Date(2025, 1, 1))) * 2000 + t.leg.trip_km

\* the trips entered so far: ids in entry order, any truck, driver, date and km;
\* the pass sums over the trips, so one entry order per set of trips is drawn
TripLists ==
    UNION {{l \in [1..n -> [truck_id : {1, 2}, driver_id : {NoId, 1, 2}, leg : TripLegs]] :
                \A i \in 1..n : \A j \in 1..n : i < j => TripRank(l[i]) <= TripRank(l[j])}
           : n \in 0..MaxTrips}

InitAlloc ==
    /\ trucks \in TruckFleets
    /\ drivers \in DriverCrews
    /\ \E l \in TripLists :
          trips = [i \in 1..Len(l) |->
                      Trip(i, l[i].truck_id, l[i].leg.trip_date, l[i].driver_id,
                           l[i].leg.trip_km)]
    /\ next_trip_id = Len(trips) + 1
    /\ fuels = <<>> /\ wear_rate_per_km = DefaultWearRate
    /\ \E f \in Filters : sel_tid = f.sel /\ period = f.per
    /\ alloc_out = NotRun
    /\ next_driver_id = Len(drivers) + 1
    /\ today = ym_from_year_month(2026, 1)
    /\ pay_written = <<>>
    /\ InterestIdle /\ SummaryIdle
    /\ StationIdle /\ FleetWindowOpen

\* TripsPage.refresh
Refresh ==
    /\ alloc_out = NotRun
    /\ alloc_out' = refresh(trips, trucks, drivers, fuels, wear_rate_per_km,
                            sel_tid, period)
    /\ UNCHANGED <<trucks, trips, next_trip_id, fuels, wear_rate_per_km, sel_tid, period,
                   driver_vars, interest_vars, summary_vars,
                   fleet_ext_vars, station_vars, save_vars>>

NextAlloc == Refresh

SpecAlloc == InitAlloc /\ [][NextAlloc]_vars

(***************************************************************************)
(* Claims on the cost allocator (under SpecAlloc)                          *)
(***************************************************************************)
\* the in-scope trips of a month, and of a month on one truck
ScopeOfMonth(mk) ==
    {i \in InScope(trips, period, sel_tid) : month_key(trips[i].trip_date) = mk}

ScopeOfTruckMonth(mk, tid) == {i \in ScopeOfMonth(mk) : trips[i].truck_id = tid}

\* the rows of the pass for a month on one truck
RowsOfTruckMonth(mk, tid) ==
    {r \in 1..Len(alloc_out.rows) :
        alloc_out.rows[r].mk = mk /\ alloc_out.rows[r].truck_id = tid}

\* the per-vehicle cost the rows of (mk, tid) were allocated, all together
AllocatedToTruckMonth(mk, tid) ==
    FracSum(RowsOfTruckMonth(mk, tid),
            [r \in 1..Len(alloc_out.rows) |-> alloc_out.rows[r].fixed_share_truck])

\* the truck's fixed cost plus the driver's stamps plus a monthly driver's salary
FullCostOf(t, d) ==
    t.fixed_monthly_expenses + d.stamp_cost
        + (IF d.pay_mode = "monthly" THEN d.salary ELSE 0)

\* truck tid is active and in month mk every in-scope trip on it is driven by the
\* active driver d
DrivenOnlyBy(mk, tid, d) ==
    /\ truck_by_id(trucks, tid) # NoTruck
    /\ truck_by_id(trucks, tid).active
    /\ d.active
    /\ ScopeOfTruckMonth(mk, tid) # {}
    /\ \A i \in ScopeOfTruckMonth(mk, tid) : trips[i].driver_id = d.did

\* a fleet of one active truck and one active driver whose in-scope trips of
\* month mk are all on that truck with that driver
SingleFleet(mk) ==
    /\ Len(trucks) = 1 /\ Len(drivers) = 1
    /\ trucks[1].active /\ drivers[1].active
    /\ ScopeOfMonth(mk) # {}
    /\ \A i \in ScopeOfMonth(mk) :
          trips[i].truck_id = trucks[1].tid /\ trips[i].driver_id = drivers[1].did

\* fixed 300, salary 800, stamp 100, two March trips of 500 and 1500 km
ScenarioFleet ==
    /\ trucks = <<Truck(1, TRUE, 30000)>>
    /\ drivers = <<Driver(1, Snap("monthly", 80000, 10000, 0), TRUE, <<>>)>>
    /\ trips = <<Trip(1, 1, Date(2025, 3, 10), 1, 500),
                 Trip(2, 1, Date(2025, 3, 10), 1, 1500)>>
    /\ sel_tid = NoId /\ period = NoPeriod

SingleFleetRatesAgree ==
    \A mk \in DOMAIN alloc_out.fixed_per_km_by_month :
        SingleFleet(mk) =>
            alloc_out.fixed_per_km_by_month[mk]
                = alloc_out.fixed_per_km_truck_month[<<mk, trucks[1].tid>>]

ScenarioFigures ==
    ScenarioFleet =>
        /\ alloc_out.fixed_per_km_by_month[<<2025, 3>>] = Frac(60, 1)
        /\ alloc_out.fixed_per_km_truck_month[<<<<2025, 3>>, 1>>] = Frac(60, 1)
        /\ \A r \in 1..Len(alloc_out.rows) :
              alloc_out.rows[r].trip_km = 500 =>
                  /\ alloc_out.rows[r].fixed_share = FracOfInt(30000)
                  /\ alloc_out.rows[r].fixed_share_truck = FracOfInt(30000)

\* C9 as stated: in a month in which an active vehicle is driven only by one
\* active driver, the per-vehicle cost allocated to that vehicle's in-scope trips
\* sums to the vehicle's fixed cost plus the driver's stamps plus the driver's
\* salary if monthly; in the single-vehicle single-driver fleet both rates agree
\* (300 + 800 + 100 over 2000 km: 0.60 per km, 300.00 for a 500 km trip).
C9_AsStated ==
    alloc_out.done =>
        /\ \A k \in DOMAIN alloc_out.fixed_per_km_truck_month :
           \A j \in 1..Len(drivers) :
              DrivenOnlyBy(k[1], k[2], drivers[j]) =>
                  AllocatedToTruckMonth(k[1], k[2])
                      = FracOfInt(FullCostOf(truck_by_id(trucks, k[2]), drivers[j]))
        /\ SingleFleetRatesAgree
        /\ ScenarioFigures

\* C9 amended: the same, for a vehicle whose in-scope distance of the month is
\* positive and whose driver drives no other vehicle in scope that month.
C9_Conservation ==
    alloc_out.done =>
        /\ \A k \in DOMAIN alloc_out.fixed_per_km_truck_month :
           \A j \in 1..Len(drivers) :
              (/\ DrivenOnlyBy(k[1], k[2], drivers[j])
               /\ \E i \in ScopeOfTruckMonth(k[1], k[2]) : trips[i].trip_km > 0
               /\ \A i \in ScopeOfMonth(k[1]) :
                     trips[i].driver_id = drivers[j].did => trips[i].truck_id = k[2])
              => AllocatedToTruckMonth(k[1], k[2])
                    = FracOfInt(FullCostOf(truck_by_id(trucks, k[2]), drivers[j]))
        /\ SingleFleetRatesAgree
        /\ ScenarioFigures

\* a two-truck, two-driver fleet in which, in March, each truck is driven only by
\* a driver of its own, one of them paid per trip with a salary on file, after
\* the pass
C9_Witness ==
    /\ alloc_out.done
    /\ Len(trucks) = 2 /\ Len(drivers) = 2
    /\ \E j \in 1..2 : \E tid \in 1..2 :
          /\ drivers[j].pay_mode = "per_trip" /\ drivers[j].salary > 0
          /\ DrivenOnlyBy(<<2025, 3>>, tid, drivers[j])
          /\ DrivenOnlyBy(<<2025, 3>>, 3 - tid, drivers[3 - j])
          /\ \E i \in ScopeOfTruckMonth(<<2025, 3>>, tid) : trips[i].trip_km > 0
          /\ AllocatedToTruckMonth(<<2025, 3>>, tid)
                = FracOfInt(FullCostOf(truck_by_id(trucks, tid), drivers[j]))

\* C10: a month whose in-scope trips total zero distance gets the fleet-blended
\* rate 0, a (month, vehicle) pair whose in-scope trips total zero distance gets
\* the per-vehicle rate 0, and the pass completes with a row for every in-scope
\* trip.
C10_ZeroDistanceRateZero ==
    alloc_out.done =>
        /\ DOMAIN alloc_out.fixed_per_km_by_month
              = {month_key(trips[i].trip_date) : i \in InScope(trips, period, sel_tid)}
        /\ \A mk \in DOMAIN alloc_out.fixed_per_km_by_month :
              (\A i \in ScopeOfMonth(mk) : trips[i].trip_km = 0) =>
                  alloc_out.fixed_per_km_by_month[mk] = FracZero
        /\ \A k \in DOMAIN alloc_out.fixed_per_km_truck_month :
              (\A i \in ScopeOfTruckMonth(k[1], k[2]) : trips[i].trip_km = 0) =>
                  alloc_out.fixed_per_km_truck_month[k] = FracZero
        /\ Len(alloc_out.rows) = Cardinality(InScope(trips, period, sel_tid))
        /\ \A i \in InScope(trips, period, sel_tid) :
              \E r \in 1..Len(alloc_out.rows) :
                  alloc_out.rows[r].trip_id = trips[i].trip_id

\* March has only zero-km trips while the fleet has costs to allocate, and April
\* has distance
C10_Witness ==
    /\ alloc_out.done
    /\ ScopeOfMonth(<<2025, 3>>) # {}
    /\ \A i \in ScopeOfMonth(<<2025, 3>>) : trips[i].trip_km = 0
    /\ ScopeOfMonth(<<2025, 4>>) # {}
    /\ fixed_per_month_total(trucks, drivers, sel_tid) > 0
    /\ alloc_out.fixed_per_km_by_month[<<2025, 3>>] = FracZero
    /\ alloc_out.fixed_per_km_by_month[<<2025, 4>>] # FracZero

(***************************************************************************)
(* SpecTrips: the trip handlers, the driver form and the pay dialog on a   *)
(* fleet of one truck and one driver, each followed by the pass they run   *)
(***************************************************************************)
\* TripsPage._calc_driver_pay: the driver's per-trip rate if the driver is known
\* and paid per trip, else 0
_calc_driver_pay(ds, driver_id) ==
    IF driver_id = NoId THEN 0
    ELSE LET d == driver_by_id(ds, driver_id)
         IN  IF d = NoDriver THEN 0
             ELSE IF d.pay_mode # "per_trip" THEN 0
             ELSE d.pay_per_trip

\* the dates typed into the trip form
TripDates == {Date(2025, 11, 10), Date(2026, 1, 10)}

\* the periods the period bar offers: a whole year
BarPeriods == {[year |-> 2025, month |-> 0], [year |-> 2026, month |-> 0]}

\* cb_driver: "no driver" or an active driver
DriverChoices == {NoId} \cup {drivers[j].did : j \in {k \in 1..Len(drivers) : drivers[k].active}}

\* cb_truck: a registered truck
TruckChoices == {trucks[i].tid : i \in 1..Len(trucks)}

TripIndex(trip_id) == CHOOSE i \in 1..Len(trips) : trips[i].trip_id = trip_id

TripIds == {trips[i].trip_id : i \in 1..Len(trips)}

\* trips without the trip with that id
RECURSIVE WithoutTrip(_, _)
WithoutTrip(tps, trip_id) ==
    IF tps = <<>> THEN <<>>
    ELSE IF Head(tps).trip_id = trip_id THEN WithoutTrip(Tail(tps), trip_id)
    ELSE <<Head(tps)>> \o WithoutTrip(Tail(tps), trip_id)

InitTrips ==
    /\ trucks = <<Truck(1, TRUE, 30000)>>
    /\ drivers = <<Driver(1, SnapMonthly, TRUE, <<>>)>>
    /\ next_driver_id = 2
    /\ today = ym_from_year_month(2026, 3)
    /\ pay_written = <<>>
    /\ trips = <<>> /\ next_trip_id = 1 /\ fuels = <<>>
    /\ wear_rate_per_km = DefaultWearRate
    /\ sel_tid = NoId /\ period = [year |-> 2026, month |-> 0]
    /\ alloc_out = NotRun
    /\ InterestIdle /\ SummaryIdle
    /\ StationIdle /\ FleetWindowOpen

\* an add_trip that advances the odometer of the trip's truck by the trip's distance
add_trip_moving_odometer(tid, d, did, km, revenue, commission, tolls) ==
    /\ next_trip_id <= MaxTrips
    /\ tid \in TruckChoices /\ did \in DriverChoices
    /\ trips' = Append(trips, TripOf(next_trip_id, tid, d, did, km, revenue,
                                     commission, tolls, _calc_driver_pay(drivers, did)))
    /\ trucks' = [i \in 1..Len(trucks) |->
                    IF trucks[i].tid = tid
                    THEN [trucks[i] EXCEPT !.odometer_km = @ + km] ELSE trucks[i]]
    /\ next_trip_id' = next_trip_id + 1
    /\ alloc_out' = refresh(trips', trucks', drivers, fuels, wear_rate_per_km,
                            sel_tid, period)
    /\ timer' = TRUE
    /\ UNCHANGED <<fuels, wear_rate_per_km, sel_tid, period,
                   driver_vars, interest_vars, summary_vars,
                   fleet_ext_vars, station_vars, file, window>>

\* TripsPage.add_trip, with the pass it ends with
add_trip(tid, d, did, km, revenue, commission, tolls) ==
    /\ next_trip_id <= MaxTrips
    /\ tid \in TruckChoices /\ did \in DriverChoices
    /\ trips' = Append(trips, TripOf(next_trip_id, tid, d, did, km, revenue,
                                     commission, tolls, _calc_driver_pay(drivers, did)))
    /\ next_trip_id' = next_trip_id + 1
    /\ alloc_out' = refresh(trips', trucks, drivers, fuels, wear_rate_per_km,
                            sel_tid, period)
    /\ timer' = TRUE
    /\ UNCHANGED <<trucks, fuels, wear_rate_per_km, sel_tid, period,
                   driver_vars, interest_vars, summary_vars,
                   fleet_ext_vars, station_vars, file, window>>

\* TripsPage.update_trip on the selected trip, with the pass it ends with
update_trip(trip_id, tid, d, did, km, revenue, commission, tolls) ==
    /\ trip_id \in TripIds
    /\ tid \in TruckChoices /\ did \in DriverChoices
    /\ trips' = [trips EXCEPT ![TripIndex(trip_id)] =
                    TripOf(trip_id, tid, d, did, km, revenue, commission, tolls,
                           _calc_driver_pay(drivers, did))]
    /\ alloc_out' = refresh(trips', trucks, drivers, fuels, wear_rate_per_km,
                            sel_tid, period)
    /\ timer' = TRUE
    /\ UNCHANGED <<trucks, next_trip_id, fuels, wear_rate_per_km, sel_tid, period,
                   driver_vars, interest_vars, summary_vars,
                   fleet_ext_vars, station_vars, file, window>>

\* TripsPage.delete_trip on the selected trip, with the pass it ends with
delete_trip(trip_id) ==
    /\ trip_id \in TripIds
    /\ trips' = WithoutTrip(trips, trip_id)
    /\ alloc_out' = refresh(trips', trucks, drivers, fuels, wear_rate_per_km,
                            sel_tid, period)
    /\ timer' = TRUE
    /\ UNCHANGED <<trucks, next_trip_id, fuels, wear_rate_per_km, sel_tid, period,
                   driver_vars, interest_vars, summary_vars,
                   fleet_ext_vars, station_vars, file, window>>

\* TripsPage.set_period, called by the period bar
set_period(per) ==
    /\ period' = per
    /\ alloc_out' = refresh(trips, trucks, drivers, fuels, wear_rate_per_km,
                            sel_tid, per)
    /\ UNCHANGED <<trucks, trips, next_trip_id, fuels, wear_rate_per_km, sel_tid,
                   driver_vars, interest_vars, summary_vars,
                   fleet_ext_vars, station_vars, save_vars>>

\* TruckWindow.go_trips: the trips page is shown again and runs its pass
go_trips ==
    /\ alloc_out' = refresh(trips, trucks, drivers, fuels, wear_rate_per_km,
                            sel_tid, period)
    /\ UNCHANGED <<trucks, trips, next_trip_id, fuels, wear_rate_per_km, sel_tid,
                   period, driver_vars, interest_vars, summary_vars,
                   fleet_ext_vars, station_vars, save_vars>>

NextTrips ==
    \/ \E d \in TripDates, did \in {NoId, 1} :
          add_trip(1, d, did, 500, 100000, 1000, 2000)
    \/ \E id \in 1..MaxTrips, d \in TripDates, did \in {NoId, 1} :
          update_trip(id, 1, d, did, 500, 100000, 1000, 2000)
    \/ \E id \in 1..MaxTrips : delete_trip(id)
    \/ \E per \in BarPeriods : set_period(per)
    \/ go_trips
    \/ \E s \in FormSnaps, a \in BOOLEAN : update_driver(1, s, a)
    \/ \E k \in DialogMonths, s \in FormSnaps : pay_history_save(1, k[1], k[2], s)

SpecTrips == InitTrips /\ [][NextTrips]_vars

\* the in-scope km of a set of trip indices
KmSum(idx) == IntSum(idx, [i \in 1..Len(trips) |-> trips[i].trip_km])

\* stamps of the active drivers, and salaries of the active monthly drivers
ActiveStamps ==
    IntSum({j \in 1..Len(drivers) : drivers[j].active},
           [j \in 1..Len(drivers) |-> drivers[j].stamp_cost])

ActiveMonthlySalaries ==
    IntSum({j \in 1..Len(drivers) : drivers[j].active /\ drivers[j].pay_mode = "monthly"},
           [j \in 1..Len(drivers) |-> drivers[j].salary])

ActiveTrucksFixed ==
    IntSum({i \in 1..Len(trucks) : trucks[i].active},
           [i \in 1..Len(trucks) |-> trucks[i].fixed_monthly_expenses])

\* C11: with no vehicle selected, for every month touched by in-scope trips with
\* positive total distance the fleet-blended rate is (fixed cost of the active
\* vehicles + stamps of the active drivers + salaries of the active monthly
\* drivers) / total in-scope distance of the month; inactive vehicles, inactive
\* drivers and per-trip drivers' salaries contribute nothing.
C11_FleetBlendedRate ==
    (alloc_out.done /\ sel_tid = NoId) =>
        \A mk \in DOMAIN alloc_out.fixed_per_km_by_month :
            KmSum(ScopeOfMonth(mk)) > 0 =>
                alloc_out.fixed_per_km_by_month[mk] =
                    Frac(ActiveTrucksFixed + ActiveStamps + ActiveMonthlySalaries,
                         KmSum(ScopeOfMonth(mk)))

\* a fleet with an inactive truck and an inactive driver, both with costs on file,
\* and a month with distance, after the pass with no vehicle selected
C11_Witness ==
    /\ alloc_out.done /\ sel_tid = NoId
    /\ \E i \in 1..Len(trucks) :
          ~trucks[i].active /\ trucks[i].fixed_monthly_expenses > 0
    /\ \E j \in 1..Len(drivers) : ~drivers[j].active /\ drivers[j].salary > 0
    /\ \E mk \in DOMAIN alloc_out.fixed_per_km_by_month :
          /\ KmSum(ScopeOfMonth(mk)) > 0
          /\ alloc_out.fixed_per_km_by_month[mk] # FracZero

\* the in-scope trips of month mk driven by driver did, and those on truck tid
ScopeOfDriverMonth(mk, did) ==
    {i \in ScopeOfMonth(mk) : trips[i].driver_id = did}

ScopeOfDriverTruckMonth(mk, did, tid) ==
    {i \in ScopeOfDriverMonth(mk, did) : trips[i].truck_id = tid}

\* stamps plus, for a monthly driver, the salary
MonthlyCostOf(d) == d.stamp_cost + (IF d.pay_mode = "monthly" THEN d.salary ELSE 0)

\* the active drivers with a nonzero monthly cost and in-scope distance in mk
ChargedDrivers(mk) ==
    {j \in 1..Len(drivers) :
        /\ drivers[j].active /\ MonthlyCostOf(drivers[j]) # 0
        /\ KmSum(ScopeOfDriverMonth(mk, drivers[j].did)) > 0}

\* what truck tid is charged for month mk: its own fixed cost if active, plus each
\* charged driver's cost in proportion to the distance driven on tid
ChargedToTruck(mk, tid) ==
    LET t == truck_by_id(trucks, tid)
    IN  FracAdd(
            FracOfInt(IF t # NoTruck /\ t.active THEN t.fixed_monthly_expenses ELSE 0),
            FracSum(ChargedDrivers(mk),
                    [j \in 1..Len(drivers) |->
                        Frac(MonthlyCostOf(drivers[j])
                                * KmSum(ScopeOfDriverTruckMonth(mk, drivers[j].did, tid)),
                             KmSum(ScopeOfDriverMonth(mk, drivers[j].did)))]))

\* C12: for every active driver with a nonzero monthly cost and every month in
\* which the driver's in-scope distance is positive, the share charged to a
\* vehicle is cost * (driver's distance on the vehicle / driver's distance), so
\* the shares over the vehicles sum to the cost; an active vehicle's own fixed
\* cost is added in full to that vehicle only, and the vehicle-month rate is that
\* total divided by the vehicle's in-scope distance of the month.
C12_PerVehicleShares ==
    alloc_out.done =>
        LET scope == InScope(trips, period, sel_tid)
        IN  /\ \A mk \in DOMAIN alloc_out.fixed_per_km_by_month :
               \A j \in ChargedDrivers(mk) :
                  /\ \A k \in DOMAIN alloc_out.fixed_per_km_truck_month :
                        k[1] = mk =>
                            payroll_share(trips, scope, mk, drivers[j], k[2]) =
                                Frac(MonthlyCostOf(drivers[j])
                                        * KmSum(ScopeOfDriverTruckMonth(
                                                    mk, drivers[j].did, k[2])),
                                     KmSum(ScopeOfDriverMonth(mk, drivers[j].did)))
                  /\ FracSum({k \in DOMAIN alloc_out.fixed_per_km_truck_month :
                                k[1] = mk},
                             [k \in DOMAIN alloc_out.fixed_per_km_truck_month |->
                                payroll_share(trips, scope, k[1], drivers[j], k[2])])
                        = FracOfInt(MonthlyCostOf(drivers[j]))
            /\ \A k \in DOMAIN alloc_out.fixed_per_km_truck_month :
                  KmSum(ScopeOfTruckMonth(k[1], k[2])) > 0 =>
                      alloc_out.fixed_per_km_truck_month[k] =
                          Frac(ChargedToTruck(k[1], k[2]).num,
                               ChargedToTruck(k[1], k[2]).den
                                  * KmSum(ScopeOfTruckMonth(k[1], k[2])))

\* a driver with a monthly cost who drove two trucks in one month, unequal
\* distances, each truck also driven by nobody else, after the pass
C12_Witness ==
    /\ alloc_out.done
    /\ \E j \in 1..Len(drivers) : \E mk \in DOMAIN alloc_out.fixed_per_km_by_month :
          /\ j \in ChargedDrivers(mk)
          /\ KmSum(ScopeOfDriverTruckMonth(mk, drivers[j].did, 1)) > 0
          /\ KmSum(ScopeOfDriverTruckMonth(mk, drivers[j].did, 2))
                > KmSum(ScopeOfDriverTruckMonth(mk, drivers[j].did, 1))
          /\ alloc_out.fixed_per_km_truck_month[<<mk, 1>>]
                # alloc_out.fixed_per_km_truck_month[<<mk, 2>>]

(***************************************************************************)
(* SpecProfit: TripsPage.refresh applied to bounded datasets with money,   *)
(* fuel expenses and wear rates                                            *)
(***************************************************************************)
\* the fleets: truck 1 without and with a wear rate of its own, and two trucks
ProfitFleets ==
    {<<TruckOf(1, TRUE, 30000, NoId, 0)>>,
     <<TruckOf(1, TRUE, 30000, NoId, 250)>>,
     <<TruckOf(1, TRUE, 30000, NoId, 0), TruckOf(2, TRUE, 20000, NoId, 250)>>}

\* the fleet default wear rate a data file holds: 0, 0.10 or 0.15 per km
WearDefaults == {0, DefaultWearRate, 150}

\* the trips entered: truck, date, driver, km, revenue, commission, tolls; a trip
\* of the per-trip driver 1 stores his rate, a trip without a driver stores 0
ProfitTrips ==
    <<[truck_id |-> 1, trip_date |-> Date(2025, 3, 10), driver_id |-> 1,
       trip_km |-> 500, revenue |-> 100000, commission_percent |-> 1000,
       toll_amount |-> 2000],
      [truck_id |-> 1, trip_date |-> Date(2025, 3, 10), driver_id |-> NoId,
       trip_km |-> 500, revenue |-> 100000, commission_percent |-> 0,
       toll_amount |-> 2000],
      [truck_id |-> 1, trip_date |-> Date(2025, 3, 11), driver_id |-> NoId,
       trip_km |-> 0, revenue |-> 0, commission_percent |-> 0, toll_amount |-> 0],
      [truck_id |-> 2, trip_date |-> Date(2025, 3, 10), driver_id |-> 1,
       trip_km |-> 1500, revenue |-> 90000, commission_percent |-> 250,
       toll_amount |-> 0]>>

\* the fuel expenses entered: truck, date, liters (1/100), price per liter (1/1000)
ProfitFuels ==
    <<[truck_id |-> 1, fuel_date |-> Date(2025, 3, 10), liters |-> 5000, cost |-> 1500],
      [truck_id |-> 1, fuel_date |-> Date(2025, 3, 11), liters |-> 2000, cost |-> 1600],
      [truck_id |-> 2, fuel_date |-> Date(2025, 3, 10), liters |-> 10000, cost |-> 1400]>>

\* the non-decreasing index lists of length <= n over 1..k: one entry order per
\* multiset of entries
Picks(k, n) ==
    UNION {{l \in [1..m -> 1..k] : \A i \in 1..m : \A j \in 1..m : i < j => l[i] <= l[j]}
           : m \in 0..n}

InitProfit ==
    /\ trucks \in ProfitFleets
    /\ wear_rate_per_km \in WearDefaults
    /\ drivers = <<Driver(1, SnapPerTrip, TRUE, <<>>)>>
    /\ \E l \in Picks(Len(ProfitTrips), MaxTrips) :
          trips = [i \in 1..Len(l) |->
                      LET t == ProfitTrips[l[i]]
                      IN  TripOf(i, t.truck_id, t.trip_date, t.driver_id, t.trip_km,
                                 t.revenue, t.commission_percent, t.toll_amount,
                                 _calc_driver_pay(drivers, t.driver_id))]
    /\ next_trip_id = Len(trips) + 1
    /\ \E l \in Picks(Len(ProfitFuels), MaxFuels) :
          fuels = [i \in 1..Len(l) |->
                      LET f == ProfitFuels[l[i]]
                      IN  FuelExpense(i, f.truck_id, f.fuel_date, f.liters, f.cost)]
    /\ \E f \in Filters : sel_tid = f.sel /\ period = f.per
    /\ alloc_out = NotRun
    /\ next_driver_id = Len(drivers) + 1
    /\ today = ym_from_year_month(2026, 1)
    /\ pay_written = <<>>
    /\ InterestIdle /\ SummaryIdle
    /\ StationIdle /\ FleetWindowOpen

NextProfit == Refresh

SpecProfit == InitProfit /\ [][NextProfit]_vars

(***************************************************************************)
(* Claims on the trip profit (under SpecProfit)                            *)
(***************************************************************************)
\* the direct driver pay of a trip: the stored value if the assigned driver is
\* paid per trip now, else 0
DirectPayOf(tr) ==
    LET d == driver_by_id(drivers, tr.driver_id)
    IN  IF tr.driver_id # NoId /\ d # NoDriver /\ d.pay_mode = "per_trip"
        THEN tr.driver_pay ELSE 0

\* the trip a row of the pass shows
TripOfRow(r) == trips[TripIndex(alloc_out.rows[r].trip_id)]

FuelTotalFor(tr) ==
    FracSum({k \in 1..Len(fuels) : fuels[k].truck_id = tr.truck_id
                                   /\ fuels[k].fuel_date = tr.trip_date},
            [k \in 1..Len(fuels) |-> Frac(fuels[k].liters * fuels[k].cost, 1000)])

\* C16: the fuel cost charged to a trip is the sum, over the fuel expenses of the
\* same vehicle and the same date, of the expense's total cost liters * price per
\* liter; other vehicles' and other dates' expenses contribute nothing.
C16_TripFuelCost ==
    alloc_out.done =>
        \A r \in 1..Len(alloc_out.rows) :
            alloc_out.rows[r].fuel_cost_trip = FuelTotalFor(TripOfRow(r))

\* C17: wear_rate_for_truck returns the vehicle's own wear rate when it is > 0 and
\* otherwise the fleet default, for every value of the fleet default including 0;
\* an unknown or absent vehicle gets the fleet default.
C17_WearRateFallback ==
    \A tid \in {NoId, 1, 2, 3} :
        LET t == truck_by_id(trucks, tid)
        IN  wear_rate_for_truck(trucks, wear_rate_per_km, tid) =
                IF tid # NoId /\ t # NoTruck /\ t.wear_rate_per_km > 0
                THEN t.wear_rate_per_km
                ELSE wear_rate_per_km

(***************************************************************************)
(* SpecSummary: TrucksSummaryPage.refresh applied to bounded datasets,     *)
(* date ranges and vehicle filters                                         *)
(***************************************************************************)
SummaryToday == ym_from_year_month(2026, 3)

\* truck 1 with main driver 1; truck 2 inactive or active, with a wear rate
SummaryFleets ==
    {<<TruckOf(1, TRUE, 30000, 1, 0), TruckOf(2, FALSE, 20000, NoId, 250)>>,
     <<TruckOf(1, TRUE, 30000, 1, 0), TruckOf(2, TRUE, 20000, 2, 250)>>}

\* crews as a data file holds them, the current fields in sync with the history
SummaryCrews ==
    {<<_sync_driver_legacy_from_history(
          Driver(1, SnapMonthly, TRUE,
                 <<HistEntry(ym_from_year_month(2025, 1), SnapMonthly),
                   HistEntry(ym_from_year_month(2025, 12), SnapRaise)>>),
          SummaryToday)>>,
     <<_sync_driver_legacy_from_history(
          Driver(1, SnapMonthly, TRUE,
                 <<HistEntry(ym_from_year_month(2025, 2), SnapPerTrip),
                   HistEntry(ym_from_year_month(2026, 1), SnapMonthly)>>),
          SummaryToday),
       Driver(2, SnapRaise, FALSE, <<>>)>>,
     <<Driver(1, SnapMonthly, TRUE, <<>>),
       _sync_driver_legacy_from_history(
          Driver(2, SnapRaise, TRUE,
                 <<HistEntry(ym_from_year_month(2026, 1), SnapRaise)>>),
          SummaryToday)>>}

\* trips on the last day of the first range, the day after it, and in the last
\* range
SummaryTrips ==
    <<[truck_id |-> 1, trip_date |-> Date(2025, 2, 3), driver_id |-> 1,
       trip_km |-> 500, revenue |-> 100000, commission_percent |-> 1000,
       toll_amount |-> 2000, driver_pay |-> 5000],
      [truck_id |-> 2, trip_date |-> Date(2025, 2, 4), driver_id |-> NoId,
       trip_km |-> 300, revenue |-> 60000, commission_percent |-> 0,
       toll_amount |-> 0, driver_pay |-> 0],
      [truck_id |-> 1, trip_date |-> Date(2026, 1, 10), driver_id |-> 1,
       trip_km |-> 1500, revenue |-> 90000, commission_percent |-> 250,
       toll_amount |-> 1000, driver_pay |-> 0]>>

\* fuel expenses on the first day of the first range and the day after its end
SummaryFuels ==
    <<[truck_id |-> 1, fuel_date |-> Date(2025, 1, 15), liters |-> 5000, cost |-> 1500],
      [truck_id |-> 2, fuel_date |-> Date(2025, 2, 4), liters |-> 10000, cost |-> 1400]>>

\* the typed dates (the page accepts any two dates, the later one first too) and
\* the period of the bar
SummaryRanges ==
    {[d_from |-> Date(2025, 1, 15), d_to |-> Date(2025, 2, 3),
      per |-> [year |-> 2025, month |-> 0]],
     [d_from |-> Date(2025, 3, 5), d_to |-> Date(2025, 3, 20),
      per |-> [year |-> 2025, month |-> 0]],
     [d_from |-> Date(2025, 11, 10), d_to |-> Date(2026, 2, 10),
      per |-> [year |-> 2026, month |-> 0]],
     [d_from |-> NoDate, d_to |-> NoDate, per |-> [year |-> 2025, month |-> 0]],
     [d_from |-> NoDate, d_to |-> NoDate, per |-> [year |-> 2025, month |-> 2]],
     [d_from |-> Date(2025, 2, 3), d_to |-> NoDate,
      per |-> [year |-> 2025, month |-> 0]],
     [d_from |-> Date(2025, 3, 5), d_to |-> Date(2025, 1, 15),
      per |-> [year |-> 2025, month |-> 0]]}

InitSummary ==
    /\ trucks \in SummaryFleets
    /\ drivers \in SummaryCrews
    /\ wear_rate_per_km = DefaultWearRate
    /\ \E l \in Picks(Len(SummaryTrips), MaxTrips) :
          trips = [i \in 1..Len(l) |->
                      LET t == SummaryTrips[l[i]]
                      IN  TripOf(i, t.truck_id, t.trip_date, t.driver_id, t.trip_km,
                                 t.revenue, t.commission_percent, t.toll_amount,
                                 t.driver_pay)]
    /\ next_trip_id = Len(trips) + 1
    /\ \E l \in Picks(Len(SummaryFuels), MaxFuels) :
          fuels = [i \in 1..Len(l) |->
                      LET f == SummaryFuels[l[i]]
                      IN  FuelExpense(i, f.truck_id, f.fuel_date, f.liters, f.cost)]
    /\ \E r \in SummaryRanges : d_from = r.d_from /\ d_to = r.d_to /\ period = r.per
    /\ sum_tid \in {NoId, 1, 2}
    /\ summary_out = NotRun
    /\ sel_tid = NoId /\ alloc_out = NotRun
    /\ next_driver_id = Len(drivers) + 1
    /\ today = SummaryToday
    /\ pay_written = <<>>
    /\ InterestIdle
    /\ StationIdle /\ FleetWindowOpen

\* TrucksSummaryPage.refresh, run by the apply button
SummaryRefresh ==
    /\ summary_out = NotRun
    /\ summary_out' = summary_refresh(trips, fuels, trucks, drivers, wear_rate_per_km,
                                      sum_tid, d_from, d_to, period, today)
    /\ UNCHANGED <<sum_tid, d_from, d_to, alloc_vars, driver_vars, interest_vars,
                   fleet_ext_vars, station_vars, save_vars>>

NextSummary == SummaryRefresh

SpecSummary == InitSummary /\ [][NextSummary]_vars

(***************************************************************************)
(* Claims on the trips page after trip and driver operations (SpecTrips)   *)
(***************************************************************************)
\* the table shows the pass over the present data
PassIsCurrent ==
    /\ alloc_out.done
    /\ alloc_out = refresh(trips, trucks, drivers, fuels, wear_rate_per_km,
                           sel_tid, period)

\* the month key (y, m) as a "YYYY-MM" month
YmOfKey(mk) == ym_from_year_month(mk[1], mk[2])

\* the monthly cost of driver d by the snapshot in force in month mk
ResolvedMonthlyCost(d, mk) ==
    LET snap == driver_pay_for_month(d, YmOfKey(mk))
    IN  snap.stamp_cost + (IF snap.pay_mode = "monthly" THEN snap.salary ELSE 0)

ResolvedCrewCost(mk) ==
    IntSum({j \in 1..Len(drivers) : drivers[j].active},
           [j \in 1..Len(drivers) |-> ResolvedMonthlyCost(drivers[j], mk)])

\* C13: the stamps, salary and pay mode the allocator charges for a driver in the
\* month of a trip are those of the snapshot the resolver returns for that month
\* (so a snapshot set for a later month leaves earlier months' shares unchanged):
\* the fleet-blended rate of a month with distance is (active trucks' fixed cost +
\* the active drivers' cost by the month's snapshot) / the month's distance.
C13_MonthAccurateAllocation ==
    PassIsCurrent =>
        \A mk \in DOMAIN alloc_out.fixed_per_km_by_month :
            KmSum(ScopeOfMonth(mk)) > 0 =>
                alloc_out.fixed_per_km_by_month[mk] =
                    Frac(ActiveTrucksFixed + ResolvedCrewCost(mk),
                         KmSum(ScopeOfMonth(mk)))

\* C15: the direct driver pay deducted in a trip's profit is the trip's stored
\* driver pay only if the assigned driver's current pay mode is per-trip, and 0
\* when the driver is monthly now or the trip has no driver.
C15_DirectPayByCurrentMode ==
    PassIsCurrent =>
        \A r \in 1..Len(alloc_out.rows) :
            LET tr == trips[TripIndex(alloc_out.rows[r].trip_id)]
            IN  /\ alloc_out.rows[r].driver_pay = DirectPayOf(tr)
                /\ alloc_out.rows[r].gross_profit =
                      FracSub(FracSub(FracSub(FracSub(FracSub(
                          FracOfInt(tr.revenue), alloc_out.rows[r].comm_amount),
                          FracOfInt(tr.toll_amount)), alloc_out.rows[r].wear_cost),
                          alloc_out.rows[r].fuel_cost_trip),
                          FracOfInt(DirectPayOf(tr)))

(***************************************************************************)
(* Claims on the summary page (SpecSummary)                                *)
(***************************************************************************)
\* the range in force: the typed dates, or the bar's period when none is typed
RangeFrom ==
    IF d_from # NoDate \/ d_to # NoDate \/ period.year = 0 THEN d_from
    ELSE Date(period.year, IF period.month = 0 THEN 1 ELSE period.month, 1)

RangeTo ==
    IF d_from # NoDate \/ d_to # NoDate \/ period.year = 0 THEN d_to
    ELSE IF period.month = 0 THEN Date(period.year, 12, 31)
    ELSE Date(period.year, period.month, DaysInMonth(period.year, period.month))

Within(d) ==
    /\ RangeFrom = NoDate \/ Ordinal(RangeFrom) <= Ordinal(d)
    /\ RangeTo = NoDate \/ Ordinal(d) <= Ordinal(RangeTo)

TripsInScope ==
    {i \in 1..Len(trips) :
        (sum_tid = NoId \/ trips[i].truck_id = sum_tid) /\ Within(trips[i].trip_date)}

FuelsInScope ==
    {k \in 1..Len(fuels) :
        (sum_tid = NoId \/ fuels[k].truck_id = sum_tid) /\ Within(fuels[k].fuel_date)}

\* C18: in the summary, the other expenses are 5% of the revenue of the trips in
\* scope, the net result is that revenue less each cost category once, and only
\* the trips and fuel expenses of the filtered vehicle dated within the range,
\* both ends included, are counted
C18_SummaryTotals ==
    summary_out.done =>
        /\ summary_out.total_rev =
              IntSum(TripsInScope, [i \in 1..Len(trips) |-> trips[i].revenue])
        /\ summary_out.total_km =
              IntSum(TripsInScope, [i \in 1..Len(trips) |-> trips[i].trip_km])
        /\ summary_out.total_tolls =
              IntSum(TripsInScope, [i \in 1..Len(trips) |-> trips[i].toll_amount])
        /\ summary_out.total_per_trip_pay =
              IntSum(TripsInScope, [i \in 1..Len(trips) |-> trips[i].driver_pay])
        /\ summary_out.total_commission =
              FracSum(TripsInScope, [i \in 1..Len(trips) |->
                  Frac(trips[i].revenue * trips[i].commission_percent, 10000)])
        /\ summary_out.total_liters =
              IntSum(FuelsInScope, [k \in 1..Len(fuels) |-> fuels[k].liters])
        /\ summary_out.total_cost_fuel =
              FracSum(FuelsInScope, [k \in 1..Len(fuels) |->
                  Frac(fuels[k].liters * fuels[k].cost, 1000)])
        /\ summary_out.total_other_expenses.num * 100
              = summary_out.total_rev * 5 * summary_out.total_other_expenses.den
        /\ FracOfInt(summary_out.total_rev) =
              FracAdd(summary_out.net,
              FracAdd(summary_out.total_cost_fuel,
              FracAdd(summary_out.total_commission,
              FracAdd(FracOfInt(summary_out.total_tolls),
              FracAdd(summary_out.total_wear,
              FracAdd(FracOfInt(summary_out.total_fixed),
              FracAdd(summary_out.total_other_expenses,
              FracAdd(FracOfInt(summary_out.total_stamps),
              FracAdd(FracOfInt(summary_out.total_salary),
                      FracOfInt(summary_out.total_per_trip_pay))))))))))

\* a trip on the last day of the range is counted, one after it or of another
\* vehicle is not, and a fuel expense is counted
C18_Witness ==
    /\ summary_out.done
    /\ RangeTo # NoDate
    /\ \E i \in TripsInScope : trips[i].trip_date = RangeTo /\ trips[i].revenue > 0
    /\ \E i \in 1..Len(trips) : i \notin TripsInScope
    /\ FuelsInScope # {}
    /\ summary_out.total_fixed > 0
    /\ summary_out.total_salary > 0

\* the calendar months from the range's start month to its end month
MonthsOfRange ==
    {n \in (RangeFrom.y * 12 + RangeFrom.m)..(RangeTo.y * 12 + RangeTo.m) : TRUE}

\* the vehicles in scope: the selected one, or all when none is selected
TrucksInScope == {i \in 1..Len(trucks) : sum_tid = NoId \/ trucks[i].tid = sum_tid}

\* C19: for a range with both ends, the total fixed cost is the sum over the active
\* vehicles in scope of the fixed monthly cost times the number of calendar months
\* from the start month to the end month, whatever the days; inactive vehicles add 0
C19_TotalFixedByMonths ==
    (summary_out.done /\ RangeFrom # NoDate /\ RangeTo # NoDate) =>
        summary_out.total_fixed =
            IntSum(TrucksInScope,
                   [i \in 1..Len(trucks) |->
                       IF trucks[i].active
                       THEN trucks[i].fixed_monthly_expenses * Cardinality(MonthsOfRange)
                       ELSE 0])

\* the month key of the n-th calendar month counted from year 0
YmOfMonthNumber(n) == ym_from_year_month((n - 1) \div 12, ((n - 1) % 12) + 1)

\* every (calendar month of the range, active driver) pair
MonthDriverPairs == MonthsOfRange \X {j \in 1..Len(drivers) : drivers[j].active}

SnapshotOfPair(p) == driver_pay_for_month(drivers[p[2]], YmOfMonthNumber(p[1]))

\* C20: with no vehicle selected and a range with both ends, the total stamp cost
\* is the sum over the months of the range and the active drivers of the stamp cost
\* of the snapshot resolved for that driver and month, and the total salary cost the
\* same sum of the snapshot's salary over the snapshots whose mode is monthly
C20_PayrollPerResolvedMonth ==
    (summary_out.done /\ sum_tid = NoId /\ RangeFrom # NoDate /\ RangeTo # NoDate) =>
        /\ summary_out.total_stamps =
              IntSum(MonthDriverPairs,
                     [p \in MonthDriverPairs |-> SnapshotOfPair(p).stamp_cost])
        /\ summary_out.total_salary =
              IntSum(MonthDriverPairs,
                     [p \in MonthDriverPairs |->
                         IF SnapshotOfPair(p).pay_mode = "monthly"
                         THEN SnapshotOfPair(p).salary ELSE 0])

\* a range of several months over which the totals differ from the present rates
\* of the active drivers times the number of months
C20_Witness ==
    /\ summary_out.done /\ sum_tid = NoId
    /\ RangeFrom # NoDate /\ RangeTo # NoDate
    /\ Cardinality(MonthsOfRange) >= 2
    /\ summary_out.total_stamps > 0
    /\ summary_out.total_stamps #
          Cardinality(MonthsOfRange)
            * IntSum({j \in 1..Len(drivers) : drivers[j].active},
                     [j \in 1..Len(drivers) |-> drivers[j].stamp_cost])
    /\ summary_out.total_salary #
          Cardinality(MonthsOfRange)
            * IntSum({j \in 1..Len(drivers) : drivers[j].active},
                     [j \in 1..Len(drivers) |->
                         IF drivers[j].pay_mode = "monthly" THEN drivers[j].salary ELSE 0])

(***************************************************************************)
(* SpecPasses: the two passes run again and again over an unmodified       *)
(* dataset while the range, the period and the vehicle filters change      *)
(***************************************************************************)
\* TrucksSummaryPage.refresh_truck_combo: the selection is kept when the truck
\* is still listed, else the combo shows "all"
refresh_truck_combo(ts, current) ==
    IF current # NoId /\ \E i \in 1..Len(ts) : ts[i].tid = current THEN current ELSE NoId

\* TripsPage.refresh_truck_filter_combo: only active trucks are listed
refresh_truck_filter_combo(ts, current) ==
    IF current # NoId /\ \E i \in 1..Len(ts) : ts[i].tid = current /\ ts[i].active
    THEN current ELSE NoId

\* the dates typed into the two fields of the summary page
TypedRanges ==
    {[d_from |-> NoDate, d_to |-> NoDate],
     [d_from |-> Date(2025, 1, 15), d_to |-> Date(2025, 2, 3)],
     [d_from |-> Date(2025, 2, 3), d_to |-> NoDate]}

\* the periods of the bar: a year, or a month of it
PassPeriods == {[year |-> 2025, month |-> 0], [year |-> 2025, month |-> 2]}

InitPasses ==
    /\ trucks \in SummaryFleets
    /\ drivers = <<_sync_driver_legacy_from_history(
                      Driver(1, SnapMonthly, TRUE,
                             <<HistEntry(ym_from_year_month(2025, 2), SnapPerTrip),
                               HistEntry(ym_from_year_month(2026, 1), SnapMonthly)>>),
                      SummaryToday)>>
    /\ wear_rate_per_km = DefaultWearRate
    /\ \E l \in Picks(Len(SummaryTrips), MaxTrips) :
          trips = [i \in 1..Len(l) |->
                      LET t == SummaryTrips[l[i]]
                      IN  TripOf(i, t.truck_id, t.trip_date, t.driver_id, t.trip_km,
                                 t.revenue, t.commission_percent, t.toll_amount,
                                 t.driver_pay)]
    /\ next_trip_id = Len(trips) + 1
    /\ \E l \in Picks(Len(SummaryFuels), MaxFuels) :
          fuels = [i \in 1..Len(l) |->
                      LET f == SummaryFuels[l[i]]
                      IN  FuelExpense(i, f.truck_id, f.fuel_date, f.liters, f.cost)]
    /\ d_from = NoDate /\ d_to = NoDate
    /\ period = [year |-> 2025, month |-> 0]
    /\ sum_tid = NoId /\ sel_tid = NoId
    /\ summary_out = NotRun /\ alloc_out = NotRun
    /\ next_driver_id = Len(drivers) + 1
    /\ today = SummaryToday
    /\ pay_written = <<>>
    /\ InterestIdle
    /\ StationIdle /\ FleetWindowOpen

\* the hidden state a pass could carry from one run to the next: here a count
\* of the runs added to the distance total
summary_pass_counting(tid, dfrom, dto, per) ==
    LET out == summary_refresh(trips, fuels, trucks, drivers, wear_rate_per_km,
                               tid, dfrom, dto, per, today)
    IN  IF summary_out.done
        THEN [out EXCEPT !.total_km = summary_out.total_km + 1]
        ELSE out

\* TrucksSummaryPage.refresh over the present dataset
summary_pass(tid, dfrom, dto, per) ==
    summary_refresh(trips, fuels, trucks, drivers, wear_rate_per_km,
                    tid, dfrom, dto, per, today)

\* the dates are typed and the apply button runs the pass
summary_apply(r) ==
    /\ d_from' = r.d_from /\ d_to' = r.d_to
    /\ sum_tid' = refresh_truck_combo(trucks, sum_tid)
    /\ summary_out' = summary_pass(sum_tid', r.d_from, r.d_to, period)
    /\ UNCHANGED <<alloc_vars, driver_vars, interest_vars,
                   fleet_ext_vars, station_vars, save_vars>>

\* a truck is picked in the summary's combo, whose change runs the pass
summary_truck_changed(tid) ==
    /\ tid \in {NoId} \cup TruckChoices
    /\ tid # sum_tid
    /\ sum_tid' = refresh_truck_combo(trucks, tid)
    /\ summary_out' = summary_pass(sum_tid', d_from, d_to, period)
    /\ UNCHANGED <<d_from, d_to, alloc_vars, driver_vars, interest_vars,
                   fleet_ext_vars, station_vars, save_vars>>

\* TruckWindow.go_summary: the summary page is shown again and runs its pass
go_summary ==
    /\ sum_tid' = refresh_truck_combo(trucks, sum_tid)
    /\ summary_out' = summary_pass(sum_tid', d_from, d_to, period)
    /\ UNCHANGED <<d_from, d_to, alloc_vars, driver_vars, interest_vars,
                   fleet_ext_vars, station_vars, save_vars>>

\* a truck is picked in the filter of the trips page, whose change runs the pass
trips_filter_changed(tid) ==
    /\ tid \in {NoId} \cup {trucks[i].tid : i \in {k \in 1..Len(trucks) : trucks[k].active}}
    /\ tid # sel_tid
    /\ sel_tid' = refresh_truck_filter_combo(trucks, tid)
    /\ alloc_out' = refresh(trips, trucks, drivers, fuels, wear_rate_per_km,
                            sel_tid', period)
    /\ UNCHANGED <<trucks, trips, next_trip_id, fuels, wear_rate_per_km, period,
                   driver_vars, interest_vars, summary_vars,
                   fleet_ext_vars, station_vars, save_vars>>

\* TruckWindow.on_period_changed: the period is set on every page and each runs
\* its pass
on_period_changed(per) ==
    /\ period' = per
    /\ sel_tid' = refresh_truck_filter_combo(trucks, sel_tid)
    /\ alloc_out' = refresh(trips, trucks, drivers, fuels, wear_rate_per_km,
                            sel_tid', per)
    /\ sum_tid' = refresh_truck_combo(trucks, sum_tid)
    /\ summary_out' = summary_pass(sum_tid', d_from, d_to, per)
    /\ UNCHANGED <<trucks, trips, next_trip_id, fuels, wear_rate_per_km, d_from, d_to,
                   driver_vars, interest_vars,
                   fleet_ext_vars, station_vars, save_vars>>

NextPasses ==
    \/ \E r \in TypedRanges : summary_apply(r)
    \/ \E tid \in 1..2 \cup {NoId} : summary_truck_changed(tid)
    \/ go_summary
    \/ \E tid \in 1..2 \cup {NoId} : trips_filter_changed(tid)
    \/ go_trips
    \/ \E per \in PassPeriods : on_period_changed(per)

SpecPasses == InitPasses /\ [][NextPasses]_vars

TruckIndex(tid) == CHOOSE i \in 1..Len(trucks) : trucks[i].tid = tid

FuelIndex(fuel_id) == CHOOSE k \in 1..Len(fuels) : fuels[k].fuel_id = fuel_id

FuelIds == {fuels[k].fuel_id : k \in 1..Len(fuels)}

FleetDate == Date(2026, 1, 10)

\* TruckWindow._on_data_changed: the trips page lists the rows again
pages_refresh(tps, ts, fs) ==
    refresh(tps, ts, drivers, fs, wear_rate_per_km,
            refresh_truck_filter_combo(ts, sel_tid), period)

InitFleet ==
    /\ trucks = <<>>
    /\ drivers = <<>>
    /\ trips = <<>> /\ next_trip_id = 1
    /\ fuels = <<>>
    /\ wear_rate_per_km = DefaultWearRate
    /\ sel_tid = NoId
    /\ period \in BarPeriods
    /\ alloc_out = refresh(trips, trucks, drivers, fuels, wear_rate_per_km, sel_tid, period)
    /\ next_driver_id = Len(drivers) + 1
    /\ today = ym_from_year_month(2026, 3)
    /\ pay_written = <<>>
    /\ InterestIdle /\ SummaryIdle /\ StationIdle /\ FleetWindowOpen

\* TruckRegistryPage.add_truck, the plate typed being a new one
add_truck(active, odometer_km) ==
    /\ next_truck_id <= MaxTrucks
    /\ trucks' = Append(trucks, [TruckOf(next_truck_id, active, 30000, NoId, 0)
                                    EXCEPT !.odometer_km = odometer_km])
    /\ next_truck_id' = next_truck_id + 1
    /\ timer' = TRUE
    /\ sel_tid' = refresh_truck_filter_combo(trucks', sel_tid)
    /\ alloc_out' = pages_refresh(trips, trucks', fuels)
    /\ UNCHANGED <<trips, next_trip_id, fuels, wear_rate_per_km, period, next_fuel_id,
                   cb_driver_fuel, driver_vars, interest_vars, summary_vars,
                   station_vars, file, window>>

\* TruckRegistryPage.update_truck on the selected truck
update_truck(tid, active, odometer_km) ==
    /\ tid \in TruckChoices
    /\ trucks' = [trucks EXCEPT ![TruckIndex(tid)] =
                    [@ EXCEPT !.active = active, !.odometer_km = odometer_km]]
    /\ timer' = TRUE
    /\ sel_tid' = refresh_truck_filter_combo(trucks', sel_tid)
    /\ alloc_out' = pages_refresh(trips, trucks', fuels)
    /\ UNCHANGED <<trips, next_trip_id, fuels, wear_rate_per_km, period, next_truck_id,
                   next_fuel_id, cb_driver_fuel, driver_vars, interest_vars,
                   summary_vars, station_vars, file, window>>

\* the delete that keeps a truck named by a fuel expense
delete_truck_trips_only(tid) ==
    /\ tid \in TruckChoices
    /\ \A i \in 1..Len(trips) : trips[i].truck_id # tid
    /\ trucks' = SelectSeq(trucks, LAMBDA t : t.tid # tid)
    /\ timer' = TRUE
    /\ sel_tid' = refresh_truck_filter_combo(trucks', sel_tid)
    /\ alloc_out' = pages_refresh(trips, trucks', fuels)
    /\ UNCHANGED <<trips, next_trip_id, fuels, wear_rate_per_km, period, next_truck_id,
                   next_fuel_id, cb_driver_fuel, driver_vars, interest_vars,
                   summary_vars, station_vars, file, window>>

\* TruckRegistryPage.delete_truck: refused (a warning, nothing changes) while a
\* trip or a fuel expense names the truck
delete_truck(tid) ==
    /\ tid \in TruckChoices
    /\ \A i \in 1..Len(trips) : trips[i].truck_id # tid
    /\ \A k \in 1..Len(fuels) : fuels[k].truck_id # tid
    /\ trucks' = SelectSeq(trucks, LAMBDA t : t.tid # tid)
    /\ timer' = TRUE
    /\ sel_tid' = refresh_truck_filter_combo(trucks', sel_tid)
    /\ alloc_out' = pages_refresh(trips, trucks', fuels)
    /\ UNCHANGED <<trips, next_trip_id, fuels, wear_rate_per_km, period, next_truck_id,
                   next_fuel_id, cb_driver_fuel, driver_vars, interest_vars,
                   summary_vars, station_vars, file, window>>

\* an add_fuel that numbers the new expense by the length of the list
add_fuel_numbered_by_length(tid, d, did, liters, cost) ==
    /\ next_fuel_id <= MaxFuels
    /\ tid \in TruckChoices /\ did \in cb_driver_fuel
    /\ fuels' = Append(fuels, FuelOf(Len(fuels) + 1, tid, d, did, liters, cost))
    /\ next_fuel_id' = next_fuel_id + 1
    /\ timer' = TRUE
    /\ sel_tid' = refresh_truck_filter_combo(trucks, sel_tid)
    /\ alloc_out' = pages_refresh(trips, trucks, fuels')
    /\ UNCHANGED <<trucks, trips, next_trip_id, wear_rate_per_km, period, next_truck_id,
                   cb_driver_fuel, driver_vars, interest_vars, summary_vars,
                   station_vars, file, window>>

\* FuelPage.add_fuel: the truck of the form's combo, the driver of its driver combo
add_fuel(tid, d, did, liters, cost) ==
    /\ next_fuel_id <= MaxFuels
    /\ tid \in TruckChoices /\ did \in cb_driver_fuel
    /\ fuels' = Append(fuels, FuelOf(next_fuel_id, tid, d, did, liters, cost))
    /\ next_fuel_id' = next_fuel_id + 1
    /\ timer' = TRUE
    /\ sel_tid' = refresh_truck_filter_combo(trucks, sel_tid)
    /\ alloc_out' = pages_refresh(trips, trucks, fuels')
    /\ UNCHANGED <<trucks, trips, next_trip_id, wear_rate_per_km, period, next_truck_id,
                   cb_driver_fuel, driver_vars, interest_vars, summary_vars,
                   station_vars, file, window>>

\* FuelPage.update_fuel on the selected fuel expense
update_fuel(fuel_id, tid, d, did, liters, cost) ==
    /\ fuel_id \in FuelIds
    /\ tid \in TruckChoices /\ did \in cb_driver_fuel
    /\ fuels' = [fuels EXCEPT ![FuelIndex(fuel_id)] =
                    FuelOf(fuel_id, tid, d, did, liters, cost)]
    /\ timer' = TRUE
    /\ sel_tid' = refresh_truck_filter_combo(trucks, sel_tid)
    /\ alloc_out' = pages_refresh(trips, trucks, fuels')
    /\ UNCHANGED <<trucks, trips, next_trip_id, wear_rate_per_km, period, next_truck_id,
                   next_fuel_id, cb_driver_fuel, driver_vars, interest_vars,
                   summary_vars, station_vars, file, window>>

\* FuelPage.delete_fuel on the selected fuel expense
delete_fuel(fuel_id) ==
    /\ fuel_id \in FuelIds
    /\ fuels' = SelectSeq(fuels, LAMBDA f : f.fuel_id # fuel_id)
    /\ timer' = TRUE
    /\ sel_tid' = refresh_truck_filter_combo(trucks, sel_tid)
    /\ alloc_out' = pages_refresh(trips, trucks, fuels')
    /\ UNCHANGED <<trucks, trips, next_trip_id, wear_rate_per_km, period, next_truck_id,
                   next_fuel_id, cb_driver_fuel, driver_vars, interest_vars,
                   summary_vars, station_vars, file, window>>

\* StationCustomersPage.add_customer with a name typed
add_customer ==
    /\ next_customer_id <= MaxCustomers
    /\ customers' = Append(customers, [cid |-> next_customer_id])
    /\ next_customer_id' = next_customer_id + 1
    /\ UNCHANGED <<invoices, entry_vars, alloc_vars, driver_vars, interest_vars,
                   summary_vars, fleet_ext_vars, save_vars>>

\* StationCustomersPage.delete_selected on a row of the table: refused while an
\* invoice names the customer
delete_customer(row) ==
    /\ row \in 1..Len(customers)
    /\ \A i \in 1..Len(invoices) : invoices[i].customer_id # customers[row].cid
    /\ customers' = [i \in 1..(Len(customers) - 1) |->
                        IF i < row THEN customers[i] ELSE customers[i + 1]]
    /\ UNCHANGED <<invoices, next_customer_id, entry_vars, alloc_vars, driver_vars,
                   interest_vars, summary_vars, fleet_ext_vars, save_vars>>

\* the identifiers issued so far, over every kind
IdsIssued ==
    (next_truck_id - 1) + (next_trip_id - 1) + (next_fuel_id - 1)
        + (next_driver_id - 1) + (next_customer_id - 1)

NextFleet ==
    \/ IdsIssued < MaxIssued /\ add_truck(TRUE, 1000)
    \/ \E tid \in 1..MaxTrucks : update_truck(tid, FALSE, 2500)
    \/ \E tid \in 1..MaxTrucks : delete_truck(tid)
    \/ IdsIssued < MaxIssued
          /\ \E tid \in 1..MaxTrucks : add_trip(tid, FleetDate, NoId, 500, 100000, 1000, 2000)
    \/ \E id \in 1..MaxTrips, tid \in 1..MaxTrucks :
          update_trip(id, tid, FleetDate, NoId, 0, 100000, 1000, 2000)
    \/ \E id \in 1..MaxTrips : delete_trip(id)
    \/ IdsIssued < MaxIssued
          /\ \E tid \in 1..MaxTrucks : add_fuel(tid, FleetDate, NoId, 5000, 1500)
    \/ \E id \in 1..MaxFuels, tid \in 1..MaxTrucks :
          update_fuel(id, tid, FleetDate, NoId, 2000, 1500)
    \/ \E id \in 1..MaxFuels : delete_fuel(id)
    \/ IdsIssued < MaxIssued /\ add_driver(SnapPerTrip, TRUE)
    \/ \E did \in 1..MaxDrivers : delete_driver(did)
    \/ IdsIssued < MaxIssued /\ add_customer
    \/ \E row \in 1..MaxCustomers : delete_customer(row)

SpecFleet == InitFleet /\ [][NextFleet]_vars

(***************************************************************************)
(* SpecCrew: one truck, and the handlers that write or remove a driver     *)
(* reference: the trips page, the fuel page, the drivers page              *)
(***************************************************************************)
InitCrew ==
    /\ trucks = <<TruckOf(1, TRUE, 30000, NoId, 0)>>
    /\ drivers \in {<<>>, <<Driver(1, SnapPerTrip, TRUE, <<>>)>>}
    /\ trips = <<>> /\ next_trip_id = 1
    /\ fuels = <<>>
    /\ wear_rate_per_km = DefaultWearRate
    /\ sel_tid = NoId
    /\ period \in BarPeriods
    /\ alloc_out = refresh(trips, trucks, drivers, fuels, wear_rate_per_km, sel_tid, period)
    /\ next_driver_id = Len(drivers) + 1
    /\ today = ym_from_year_month(2026, 3)
    /\ pay_written = <<>>
    /\ InterestIdle /\ SummaryIdle /\ StationIdle /\ FleetWindowOpen

NextCrew ==
    \/ \E did \in {NoId, 1} : add_fuel(1, FleetDate, did, 5000, 1500)
    \/ \E id \in 1..MaxFuels, did \in {NoId, 1} : update_fuel(id, 1, FleetDate, did, 2000, 1500)
    \/ \E id \in 1..MaxFuels : delete_fuel(id)
    \/ \E did \in {NoId, 1} : add_trip(1, FleetDate, did, 500, 100000, 1000, 2000)
    \/ \E id \in 1..MaxTrips, did \in {NoId, 1} :
          update_trip(id, 1, FleetDate, did, 0, 100000, 1000, 2000)
    \/ \E id \in 1..MaxTrips : delete_trip(id)
    \/ add_driver(SnapPerTrip, TRUE)
    \/ \E did \in 1..MaxDrivers : delete_driver(did)

SpecCrew == InitCrew /\ [][NextCrew]_vars

\* C22: every driver reference held by a trip or by a fuel expense names a
\* driver of the driver list (delete_driver refuses a driver that is referenced)
C22_DriverRefsExist ==
    /\ \A i \in 1..Len(trips) : trips[i].driver_id \in DriverIds \cup {NoId}
    /\ \A k \in 1..Len(fuels) : fuels[k].driver_id \in DriverIds \cup {NoId}

\* the trucks named by a trip or by a fuel expense
TrucksInUse ==
    {trips[i].truck_id : i \in 1..Len(trips)} \cup {fuels[k].truck_id : k \in 1..Len(fuels)}

\* C23: every trip and every fuel expense names a truck of the registry, and no
\* step removes a truck that a trip or a fuel expense names (delete_truck refuses
\* and the truck list stays as it was)
C23_TruckRefsExist ==
    /\ [](TrucksInUse \subseteq TruckChoices)
    /\ [][\A tid \in TrucksInUse : tid \in TruckChoices']_vars

\* a truck deleted while another one is kept because only a fuel expense names it
C23_Witness ==
    /\ next_truck_id > Len(trucks) + 1
    /\ \E k \in 1..Len(fuels) :
          /\ fuels[k].truck_id \in TruckChoices
          /\ \A i \in 1..Len(trips) : trips[i].truck_id # fuels[k].truck_id

\* C25: a step that adds, rewrites or removes a trip leaves the odometer of every
\* truck as it was, whatever the trip's distance
C25_TripsLeaveOdometers ==
    [][(trips' # trips \/ next_trip_id' # next_trip_id)
          => /\ Len(trucks') = Len(trucks)
             /\ \A i \in 1..Len(trucks) :
                   /\ trucks'[i].tid = trucks[i].tid
                   /\ trucks'[i].odometer_km = trucks[i].odometer_km]_vars

\* a trip with a distance on a truck whose odometer has a reading
C25_Witness ==
    \E i \in 1..Len(trips) :
       /\ trips[i].trip_km > 0
       /\ \E j \in 1..Len(trucks) :
             trucks[j].tid = trips[i].truck_id /\ trucks[j].odometer_km > 0

CustomerIds == {customers[i].cid : i \in 1..Len(customers)}

\* the identifiers of a list are those of distinct entities, all below the counter
IdsBelow(ids, n, next) == Cardinality(ids) = n /\ \A id \in ids : id < next

\* a step issues new identifiers at or above the counter, which does not decrease
IssuedAbove(ids, idsAfter, next, nextAfter) ==
    nextAfter >= next /\ \A id \in idsAfter \ ids : id >= next

\* C29: within one run no two live trucks, trips, fuel expenses, drivers or
\* customers share an identifier, every live identifier is below the counter of
\* its kind, no counter decreases and every newly issued identifier is at or above
\* the counter (so the identifier of a deleted entity is not issued again)
C29_IdsUniqueNeverReissued ==
    /\ [](/\ IdsBelow(TruckChoices, Len(trucks), next_truck_id)
          /\ IdsBelow(TripIds, Len(trips), next_trip_id)
          /\ IdsBelow(FuelIds, Len(fuels), next_fuel_id)
          /\ IdsBelow(DriverIds, Len(drivers), next_driver_id)
          /\ IdsBelow(CustomerIds, Len(customers), next_customer_id))
    /\ [][/\ IssuedAbove(TruckChoices, TruckChoices', next_truck_id, next_truck_id')
          /\ IssuedAbove(TripIds, TripIds', next_trip_id, next_trip_id')
          /\ IssuedAbove(FuelIds, FuelIds', next_fuel_id, next_fuel_id')
          /\ IssuedAbove(DriverIds, DriverIds', next_driver_id, next_driver_id')
          /\ IssuedAbove(CustomerIds, CustomerIds', next_customer_id,
                         next_customer_id')]_vars

\* the first truck and the first customer deleted, the second of each live
C29_Witness ==
    /\ TruckChoices = {2} /\ next_truck_id = 3
    /\ CustomerIds = {2} /\ next_customer_id = 3

(***************************************************************************)
(* SpecSave: the fleet handlers with the autosave timer, the data file,    *)
(* the windows of the application                                          *)
(***************************************************************************)
\* TrucksModel.to_dict: what save writes
to_dict ==
    [saved |-> TRUE, trucks |-> trucks, trips |-> trips, fuels |-> fuels,
     drivers |-> drivers,
     wear_rate_per_km |-> IF wear_rate_per_km = 0 THEN DefaultWearRate
                          ELSE wear_rate_per_km,
     truck |-> next_truck_id, trip |-> next_trip_id, fuel |-> next_fuel_id,
     driver |-> next_driver_id]

\* what to_dict gives for a TrucksModel as __init__ leaves it
EmptyImage ==
    [saved |-> TRUE, trucks |-> <<>>, trips |-> <<>>, fuels |-> <<>>, drivers |-> <<>>,
     wear_rate_per_km |-> DefaultWearRate, truck |-> 1, trip |-> 1, fuel |-> 1,
     driver |-> 1]

\* TrucksModel.load of a fuel expense: a price above 10.00 per liter is taken for
\* a total and divided by the liters
load_fuel(fu) ==
    [fu EXCEPT !.cost = IF fu.liters > 0 /\ fu.cost > 10000
                        THEN (fu.cost * 100) \div fu.liters ELSE fu.cost]

\* TrucksModel.load: the model a new trucks window starts with, given the file
loaded(f) ==
    IF ~f.saved THEN EmptyImage
    ELSE [saved |-> TRUE, trucks |-> f.trucks, trips |-> f.trips,
          fuels |-> [k \in 1..Len(f.fuels) |-> load_fuel(f.fuels[k])],
          drivers |-> [j \in 1..Len(f.drivers) |-> load_driver(f.drivers[j], today)],
          wear_rate_per_km |-> f.wear_rate_per_km,
          truck |-> f.truck, trip |-> f.trip, fuel |-> f.fuel, driver |-> f.driver]

InitSave ==
    /\ trucks = <<>>
    /\ drivers = <<>>
    /\ trips = <<>> /\ next_trip_id = 1
    /\ fuels = <<>>
    /\ wear_rate_per_km = DefaultWearRate
    /\ sel_tid = NoId
    /\ period = [year |-> 2025, month |-> 0]
    /\ alloc_out = refresh(trips, trucks, drivers, fuels, wear_rate_per_km, sel_tid, period)
    /\ next_driver_id = 1
    /\ today = ym_from_year_month(2026, 3)
    /\ pay_written = <<>>
    /\ InterestIdle /\ SummaryIdle /\ StationIdle /\ FleetWindowOpen

\* the single-shot timer fires: TruckWindow.save_now, TrucksModel.save.  After
\* go_to_station it is the timer of the window that was closed, still alive
save_timeout ==
    /\ timer
    /\ file' = to_dict
    /\ timer' = FALSE
    /\ UNCHANGED <<alloc_vars, driver_vars, interest_vars, summary_vars,
                   fleet_ext_vars, station_vars, window>>

\* the user closes the trucks window, the last window: TruckWindow has no
\* closeEvent, the event loop ends and the pending timer never fires
close_trucks_window ==
    /\ window = "trucks"
    /\ window' = "closed"
    /\ timer' = FALSE
    /\ UNCHANGED <<alloc_vars, driver_vars, interest_vars, summary_vars,
                   fleet_ext_vars, station_vars, file>>

\* AppController.go_to_station: the trucks window is closed and dropped for a
\* station window; its timer goes with it or is still to fire
go_to_station ==
    /\ window = "trucks"
    /\ window' = "station"
    /\ timer' \in {timer, FALSE}
    /\ UNCHANGED <<alloc_vars, driver_vars, interest_vars, summary_vars,
                   fleet_ext_vars, station_vars, file>>

\* TruckWindow.__init__: a new TrucksModel loaded from the file, a new timer,
\* the pages built on it
open_trucks_window ==
    LET m == loaded(file)
    IN  /\ trucks' = m.trucks /\ trips' = m.trips /\ fuels' = m.fuels
        /\ drivers' = m.drivers
        /\ wear_rate_per_km' = m.wear_rate_per_km
        /\ next_truck_id' = m.truck /\ next_trip_id' = m.trip
        /\ next_fuel_id' = m.fuel /\ next_driver_id' = m.driver
        /\ cb_driver_fuel' =
              {NoId} \cup {m.drivers[j].did : j \in {k \in 1..Len(m.drivers) : m.drivers[k].active}}
        /\ sel_tid' = NoId
        /\ alloc_out' = refresh(m.trips, m.trucks, m.drivers, m.fuels,
                                m.wear_rate_per_km, NoId, period)
        /\ timer' = FALSE
        /\ window' = "trucks"
        /\ UNCHANGED <<period, today, pay_written, interest_vars, summary_vars,
                       station_vars, file>>

\* AppController.go_to_trucks from the station window
go_to_trucks == window = "station" /\ open_trucks_window

\* the application started again, the trucks section chosen
start_trucks == window = "closed" /\ open_trucks_window

NextSave ==
    \/ window = "trucks" /\ IdsIssued < MaxIssued /\ add_truck(TRUE, 1000)
    \/ window = "trucks" /\ update_truck(1, FALSE, 2500)
    \/ window = "trucks" /\ delete_truck(1)
    \/ window = "trucks" /\ IdsIssued < MaxIssued
          /\ add_trip(1, FleetDate, NoId, 500, 100000, 1000, 2000)
    \/ window = "trucks" /\ delete_trip(1)
    \/ window = "trucks" /\ IdsIssued < MaxIssued /\ add_fuel(1, FleetDate, NoId, 5000, 1500)
    \/ window = "trucks" /\ delete_fuel(1)
    \/ window = "trucks" /\ IdsIssued < MaxIssued /\ add_driver(SnapPerTrip, TRUE)
    \/ window = "trucks" /\ delete_driver(1)
    \/ save_timeout
    \/ close_trucks_window
    \/ go_to_station
    \/ go_to_trucks
    \/ start_trucks

SpecSave == InitSave /\ [][NextSave]_vars

\* C30: once the trucks window is gone (closed, or replaced by the station
\* window) and no save is pending, the data file holds every mutation: a trucks
\* window opened now loads what it would load had the dataset just been saved
C30_MutationsPersisted ==
    (window # "trucks" /\ ~timer) => loaded(file) = loaded(to_dict)

(***************************************************************************)
(* Claims on snapshots set for a month (under Spec)                        *)
(***************************************************************************)
\* C27: a snapshot set for a month after the present one leaves the driver's
\* current fields (pay mode, salary, stamp cost, per-trip rate) as they were,
\* whatever the driver's history, an empty one included
C27_FutureSnapshotKeepsCurrent ==
    \A j \in 1..Len(drivers), k \in DialogMonths, s \in FormSnaps :
       ym_from_year_month(k[1], k[2]) > today
          => SnapOf(set_driver_pay_for_month(drivers[j], ym_from_year_month(k[1], k[2]),
                                             s, today))
                = SnapOf(drivers[j])

\* the months of the dialog set after the target month mp
LaterDialogMonths(mp) ==
    {m \in {ym_from_year_month(k[1], k[2]) : k \in DialogMonths} : m > mp}

\* the driver's history holds an entry of month mp or earlier
HasEntryUpTo(driver, mp) ==
    \E i \in 1..Len(driver.pay_history) : driver.pay_history[i].month <= mp

WithoutLostDrivers ==
    [i \in 1..Len(trips) |->
        IF trips[i].driver_id \in DriverIds \cup {NoId} THEN trips[i]
        ELSE [trips[i] EXCEPT !.driver_id = NoId]]

\* C26: with trips that name a driver or a truck not in the dataset the pass
\* completes with one row per in-scope trip; the rates and the rows are those of
\* the dataset with the lost driver references removed (no cost goes to a lost
\* driver, nobody else's share moves); and the rate of a lost truck carries no
\* fixed cost of its own, only the payroll of the drivers who drove it
C26_MissingRefsNonFatal ==
    alloc_out.done =>
       LET scope == InScope(trips, period, sel_tid)
       IN  /\ Len(alloc_out.rows) = Cardinality(scope)
           /\ {alloc_out.rows[r].trip_id : r \in 1..Len(alloc_out.rows)}
                 = {trips[i].trip_id : i \in scope}
           /\ alloc_out = refresh(WithoutLostDrivers, trucks, drivers, fuels,
                                  wear_rate_per_km, sel_tid, period)
           /\ \A k \in DOMAIN alloc_out.fixed_per_km_truck_month :
                 k[2] \notin TruckChoices
                    => alloc_out.fixed_per_km_truck_month[k]
                          = rate_per_km(payroll_truck_month(trips, drivers, scope, k[1], k[2]),
                                        km_truck_month(trips, scope, k[1], k[2]))

\* the pass run over a trip of a lost driver and a trip on a lost truck driven by
\* a driver with a monthly cost, both with a distance
C26_Witness ==
    /\ alloc_out.done
    /\ \E i \in InScope(trips, period, sel_tid), j \in InScope(trips, period, sel_tid) :
          /\ trips[i].driver_id \notin DriverIds \cup {NoId} /\ trips[i].trip_km > 0
          /\ trips[j].truck_id \notin TruckChoices /\ trips[j].trip_km > 0
          /\ trips[j].driver_id \in DriverIds
          /\ month_key(trips[i].trip_date) = month_key(trips[j].trip_date)
          /\ driver_month_cost(driver_by_id(drivers, trips[j].driver_id)) > 0

(***************************************************************************)
(* SpecStation: the invoice entry page of the station window               *)
(***************************************************************************)
\* the invoice numbers typed into the form: none, blanks, two numbers, one of
\* them also with blanks around it
TypedInvoiceNos == {"", "  ", "A", " A ", "B"}

\* str.strip on the numbers typed
strip(s) == IF s = "  " THEN "" ELSE IF s = " A " THEN "A" ELSE s

\* StationModel.normalize_invoice_no
normalize_invoice_no(s) == strip(s)

\* the station Invoice, its number and its customer
EntryInvoice(invoice_no, customer_id) ==
    [invoice_no |-> invoice_no, customer_id |-> customer_id]

\* StationModel.invoice_no_exists
invoice_no_exists(invs, invoice_no, exclude_index) ==
    LET n == normalize_invoice_no(invoice_no)
    IN  /\ n # ""
        /\ \E i \in 1..Len(invs) :
              i # exclude_index /\ normalize_invoice_no(invs[i].invoice_no) = n

\* StationEntryPage.refresh, the method of the class: it leaves the table as it is
entry_refresh(table, invs) == table

\* StationEntryPage._selected_row once the user has looked for invoice i in the
\* table: row i if the table has it, else no selection
\* (rows are numbered from 1 here)
selected_row(table, i) == IF i \in 1..Len(table) THEN i ELSE NoRow

InitStation ==
    /\ InterestIdle /\ DriversIdle /\ AllocIdle /\ SummaryIdle /\ StationIdle
    /\ drivers = <<>>
    /\ next_truck_id = 1 /\ next_fuel_id = 1 /\ cb_driver_fuel = {NoId}
    /\ file = NoFile /\ timer = FALSE /\ window = "station"

\* StationEntryPage.add_invoice
add_invoice(typed, cid) ==
    LET invoice_no == strip(typed)
    IN  /\ Len(invoices) < MaxInvoices
        /\ entry_try' = [op |-> "add", row |-> NoRow, invoice_no |-> invoice_no]
        /\ IF invoice_no_exists(invoices, invoice_no, NoRow)
           THEN /\ entry_msg' = "duplicate"
                /\ UNCHANGED <<invoices, entry_table>>
           ELSE /\ invoices' = Append(invoices, EntryInvoice(invoice_no, cid))
                /\ entry_table' = entry_refresh(entry_table, invoices')
                /\ entry_msg' = "none"
        /\ UNCHANGED <<customers, next_customer_id, alloc_vars, driver_vars,
                       interest_vars, summary_vars, fleet_ext_vars, save_vars>>

\* StationEntryPage.update_selected, the user after invoice i of the list
update_selected(i, typed, cid) ==
    LET invoice_no == strip(typed)
        row == selected_row(entry_table, i)
    IN  /\ i \in 1..Len(invoices)
        /\ entry_try' = [op |-> "update", row |-> i, invoice_no |-> invoice_no]
        /\ IF row = NoRow
           THEN /\ entry_msg' = "select"
                /\ UNCHANGED <<invoices, entry_table>>
           ELSE IF invoice_no_exists(invoices, invoice_no, row)
           THEN /\ entry_msg' = "duplicate"
                /\ UNCHANGED <<invoices, entry_table>>
           ELSE /\ invoices' = [invoices EXCEPT ![row] = EntryInvoice(invoice_no, cid)]
                /\ entry_table' = entry_refresh(entry_table, invoices')
                /\ entry_msg' = "none"
        /\ UNCHANGED <<customers, next_customer_id, alloc_vars, driver_vars,
                       interest_vars, summary_vars, fleet_ext_vars, save_vars>>

\* StationEntryPage.delete_selected, the user after invoice i of the list
delete_selected(i) ==
    LET row == selected_row(entry_table, i)
    IN  /\ i \in 1..Len(invoices)
        /\ entry_try' = [op |-> "delete", row |-> i, invoice_no |-> ""]
        /\ IF row = NoRow
           THEN /\ entry_msg' = "select"
                /\ UNCHANGED <<invoices, entry_table>>
           ELSE /\ invoices' = [k \in 1..(Len(invoices) - 1) |->
                                   IF k < row THEN invoices[k] ELSE invoices[k + 1]]
                /\ entry_table' = entry_refresh(entry_table, invoices')
                /\ entry_msg' = "none"
        /\ UNCHANGED <<customers, next_customer_id, alloc_vars, driver_vars,
                       interest_vars, summary_vars, fleet_ext_vars, save_vars>>

NextStation ==
    \/ \E typed \in TypedInvoiceNos : add_invoice(typed, NoId)
    \/ \E i \in 1..MaxInvoices, typed \in TypedInvoiceNos : update_selected(i, typed, NoId)
    \/ \E i \in 1..MaxInvoices : delete_selected(i)

SpecStation == InitStation /\ [][NextStation]_vars

\* C24: no two invoices carry the same non-empty number, blanks around it apart;
\* an add or update answered as a duplicate leaves the invoice list as it was; and
\* an update of an invoice to a number no other invoice carries, its own included,
\* is accepted and stored
C24_InvoiceNumbersUnique ==
    /\ [](\A i \in 1..Len(invoices), j \in 1..Len(invoices) :
             (i < j /\ normalize_invoice_no(invoices[i].invoice_no) # "")
                => normalize_invoice_no(invoices[i].invoice_no)
                      # normalize_invoice_no(invoices[j].invoice_no))
    /\ [][entry_msg' = "duplicate" => invoices' = invoices]_vars
    /\ []((/\ entry_try.op = "update"
           /\ ~invoice_no_exists(invoices, entry_try.invoice_no, entry_try.row))
             => /\ entry_msg = "none"
                /\ invoices[entry_try.row].invoice_no = entry_try.invoice_no)

====
